---- MODULE Spec2Model ----
(***************************************************************************)
(* A model of the retrieval pipeline of autonomous-qa-agent: text          *)
(* normalisation (helpers.clean_text), chunking (the splitter configured   *)
(* in VectorStore.__init__), the vector index (VectorStore over a Chroma   *)
(* collection), the RAG orchestrator (RAGService) and the test-case        *)
(* generator (TestCaseAgent).                                              *)
(*                                                                         *)
(* Texts are sequences of one-character strings.  Distances and scores are *)
(* integers: the cosine distance 1 - cos(angle) of two unit vectors whose  *)
(* angle is a multiple of a quarter turn is 0, 1 or 2.                     *)
(***************************************************************************)
EXTENDS Integers, Sequences, FiniteSets, TLC

VARIABLES
    client,     \* the Chroma client: the set of collections it holds
    last,       \* the last VectorStore call: operation, arguments, outcome
    gen,        \* the last TestCaseAgent.generate_test_cases call
    text,       \* clean_text / split_text: the input text
    out,        \* clean_text / split_text: the result
    pc,         \* clean_text / split_text: "in" before the call, "done" after
    parsed,     \* the last DocumentParser call
    rag,        \* the last RAGService.rag_query call
    scripts,    \* the script output directory and the last script agent call
    embedder,   \* the EmbeddingService: its model and the calls in progress
    generated   \* the last ScriptGenerator.generate_selenium_script call

vars == <<client, last, gen, text, out, pc, parsed, rag, scripts, embedder, generated>>

\* the variables of the parts of the system a specification leaves alone
NoCall == [op |-> "none"]
IdleIndex == client = {} /\ last = NoCall
IdleAgent == gen = NoCall
IdleText == text = <<>> /\ out = <<>> /\ pc = "idle"
IdleParser == parsed = NoCall
IdleRag == rag = NoCall
IdleScripts == scripts = NoCall
IdleEmbedder == embedder = NoCall
IdleGenerator == generated = NoCall

\* Python's None is the empty sequence and a present value x the one-element
\* sequence <<x>>
None == <<>>
Some(x) == <<x>>

(***************************************************************************)
(* Bounds of the model.                                                    *)
(***************************************************************************)
\* chunk_size and chunk_overlap of the splitter, scaled down from 1000 / 200
ChunkSize == 5
ChunkOverlap == 1
\* longest text drawn for clean_text and for split_text
MaxTextLen == 8

(***************************************************************************)
(* Characters and strings.                                                 *)
(***************************************************************************)
NL == "\n"
NUL == "\\x00"      \* a control character that \s does not match
US == "\\x1f"       \* a control character that \s matches (unit separator)

\* str.isspace / the regex class \s on the characters of the model
IsSpace(c) == c \in {" ", NL, US}

\* the regex class [\x00-\x08\x0b-\x0c\x0e-\x1f\x7f-\x9f] on these characters
IsControl(c) == c \in {NUL, US}

RECURSIVE Concat(_)
\* "".join(parts)
Concat(parts) ==
    IF parts = <<>> THEN <<>> ELSE Head(parts) \o Concat(Tail(parts))

RECURSIVE LStrip(_)
LStrip(s) ==
    IF s # <<>> /\ IsSpace(Head(s)) THEN LStrip(Tail(s)) ELSE s

RECURSIVE RStrip(_)
RStrip(s) ==
    IF s # <<>> /\ IsSpace(s[Len(s)]) THEN RStrip(SubSeq(s, 1, Len(s) - 1)) ELSE s

\* str.strip()
Strip(s) == RStrip(LStrip(s))

\* text[i:].startswith(sep)
StartsAt(s, i, sep) ==
    /\ i + Len(sep) - 1 <= Len(s)
    /\ \A j \in 1..Len(sep) : s[i + j - 1] = sep[j]

\* re.search(re.escape(sep), text) for a non-empty sep
Contains(s, sep) == \E i \in 1..Len(s) : StartsAt(s, i, sep)

(***************************************************************************)
(* The splitter: RecursiveCharacterTextSplitter(chunk_size, chunk_overlap, *)
(* length_function=len, separators=["\n\n", "\n", " ", ""]), with the      *)
(* library's defaults keep_separator=True and strip_whitespace=True.       *)
(***************************************************************************)
Separators == << <<NL, NL>>, <<NL>>, <<" ">>, <<>> >>

RECURSIVE SplitKeep(_, _, _, _, _)
\* _split_text_with_regex, keep_separator=True: the text before the first
\* separator, then one piece per separator, each starting with it.
SplitKeep(s, sep, i, cur, acc) ==
    IF i > Len(s) THEN Append(acc, cur)
    ELSE IF StartsAt(s, i, sep)
         THEN SplitKeep(s, sep, i + Len(sep), sep, Append(acc, cur))
         ELSE SplitKeep(s, sep, i + 1, Append(cur, s[i]), acc)

\* _split_text_with_regex: list(text) for the empty separator; empty pieces dropped
SplitTextWithRegex(s, sep) ==
    LET pieces == IF sep = <<>>
                  THEN [i \in 1..Len(s) |-> <<s[i]>>]
                  ELSE SplitKeep(s, sep, 1, <<>>, <<>>)
    IN SelectSeq(pieces, LAMBDA p : p # <<>>)

\* _join_docs with separator "": the joined text stripped, "" meaning None
JoinDocs(docs) == Strip(Concat(docs))

RECURSIVE SumLen(_)
SumLen(docs) == IF docs = <<>> THEN 0 ELSE Len(Head(docs)) + SumLen(Tail(docs))

RECURSIVE PopFront_TooLate(_, _)
\* a variant that keeps popping only while the window exceeds chunk_size
PopFront_TooLate(cur, len) ==
    IF cur # <<>> /\ SumLen(cur) + len > ChunkSize
    THEN PopFront_TooLate(Tail(cur), len)
    ELSE cur

RECURSIVE PopFront(_, _)
\* the while loop of _merge_splits: drop pieces from the front of the window
\* while it is longer than chunk_overlap, or the next piece still does not fit
PopFront(cur, len) ==
    IF cur # <<>> /\ (SumLen(cur) > ChunkOverlap
                      \/ (SumLen(cur) + len > ChunkSize /\ SumLen(cur) > 0))
    THEN PopFront(Tail(cur), len)
    ELSE cur

RECURSIVE MergeLoop(_, _, _, _)
\* the for loop of _merge_splits.  cur is current_doc; every emitted chunk is
\* recorded with `carried`, the length of the pieces its window kept from the
\* window before it (what the while loop left in current_doc)
MergeLoop(splits, cur, carried, docs) ==
    IF splits = <<>> THEN [cur |-> cur, carried |-> carried, docs |-> docs]
    ELSE LET d == Head(splits)
             flush == SumLen(cur) + Len(d) > ChunkSize /\ cur # <<>>
             doc == JoinDocs(cur)
             docs2 == IF flush /\ doc # <<>>
                      THEN Append(docs, [text |-> doc, carried |-> carried])
                      ELSE docs
             cur2 == IF flush THEN PopFront(cur, Len(d)) ELSE cur
             carried2 == IF flush THEN SumLen(cur2) ELSE carried
         IN MergeLoop(Tail(splits), Append(cur2, d), carried2, docs2)

\* _merge_splits(splits, "")
MergeSplits(splits) ==
    LET r == MergeLoop(splits, <<>>, 0, <<>>)
        doc == JoinDocs(r.cur)
    IN IF doc # <<>>
       THEN Append(r.docs, [text |-> doc, carried |-> r.carried])
       ELSE r.docs

\* the index in Separators of the separator _split_text picks: the first that
\* is "" or occurs in the text
RECURSIVE PickSeparator(_, _)
PickSeparator(s, k) ==
    IF Separators[k] = <<>> \/ Contains(s, Separators[k]) THEN k
    ELSE PickSeparator(s, k + 1)

RECURSIVE SplitFrom(_, _)
RECURSIVE SplitLoop(_, _, _, _)
\* the loop of _split_text over the pieces: short pieces are collected and
\* merged, a piece of chunk_size or more is split with the next separators
SplitLoop(splits, k, good, final) ==
    IF splits = <<>>
    THEN IF good # <<>> THEN final \o MergeSplits(good) ELSE final
    ELSE LET s == Head(splits)
         IN IF Len(s) < ChunkSize
            THEN SplitLoop(Tail(splits), k, Append(good, s), final)
            ELSE LET flushed == IF good # <<>> THEN final \o MergeSplits(good) ELSE final
                     deeper == IF Separators[k] = <<>>
                               THEN <<[text |-> s, carried |-> 0]>>
                               ELSE SplitFrom(s, k + 1)
                 IN SplitLoop(Tail(splits), k, <<>>, flushed \o deeper)

\* _split_text(text, separators[from:])
SplitFrom(s, from) ==
    LET k == PickSeparator(s, from)
    IN SplitLoop(SplitTextWithRegex(s, Separators[k]), k, <<>>, <<>>)

\* text_splitter.split_text(content)
SplitText(s) ==
    LET chunks == SplitFrom(s, 1)
    IN [i \in 1..Len(chunks) |-> chunks[i].text]

(***************************************************************************)
(* Configuration (backend/config.py).                                      *)
(***************************************************************************)
COLLECTION_NAME == "qa_knowledge_base"
TOP_K_RESULTS == 5
\* the largest n_results a caller passes explicitly
MaxK == 2
\* the most documents passed to one add_documents call
MaxDocs == 2
\* the limit of collection.get in get_all_documents, 10000 in the source
GetLimit == 3

(***************************************************************************)
(* helpers.generate_chunk_id and the embedding service.                    *)
(***************************************************************************)
\* the code point of a character
Ord(c) ==
    CASE c = "a" -> 97 [] c = "b" -> 98 [] c = "c" -> 99 [] c = "d" -> 100
      [] c = "e" -> 101 [] c = "f" -> 102 [] c = "g" -> 103
      [] c = " " -> 32 [] c = NL -> 10 [] c = "." -> 46 [] c = "I" -> 73
      [] OTHER -> 0

\* the range of the digest: 16^6 (the code keeps eight hexadecimal digits;
\* the model keeps six, so that digest arithmetic stays within 32-bit integers)
HashWidth == 16777216

RECURSIVE Digest(_, _)
\* hashlib.md5(text.encode()).hexdigest()[:8]: a fixed-width digest of the text
Digest(s, h) ==
    IF s = <<>> THEN h ELSE Digest(Tail(s), (h * 31 + Ord(Head(s))) % HashWidth)

\* generate_chunk_id(text, index) == f"chunk_{index}_{text_hash}"
generate_chunk_id(txt, index) == <<"chunk", index, Digest(txt, 7)>>

\* embedding_service.embed_text: a unit vector, given by its angle in quarter
\* turns; a function of the text alone
embed_text(txt) == Digest(txt, 0) % 4

\* embedding_service.embed_batch: one vector per text, in input order
embed_batch(texts) == [i \in 1..Len(texts) |-> embed_text(texts[i])]

\* the cosine distance 1 - cos(angle) of two unit vectors
CosineDistance(u, v) ==
    LET turn == (u - v) % 4
    IN IF turn = 0 THEN 0 ELSE IF turn = 2 THEN 2 ELSE 1

(***************************************************************************)
(* The Chroma client and collection, as VectorStore uses them.             *)
(***************************************************************************)
\* client.get_or_create_collection(name, metadata): the collection of that
\* name if the client holds one, else a new empty one
GetOrCreateCollection(cl, name, space) ==
    IF \E c \in cl : c.name = name THEN cl
    ELSE cl \cup {[name |-> name, space |-> space, items |-> {}]}

\* client.delete_collection(name)
DeleteCollection(cl, name) == {c \in cl : c.name # name}

\* self.collection: the collection VectorStore holds
Collection(cl) == CHOOSE c \in cl : c.name = COLLECTION_NAME

\* the client with the items of self.collection replaced
WithItems(cl, items) ==
    {IF c.name = COLLECTION_NAME THEN [c EXCEPT !.items = items] ELSE c : c \in cl}

\* ids has a repeated element
HasDuplicates(ids) == \E i, j \in 1..Len(ids) : i < j /\ ids[i] = ids[j]

\* collection.upsert in place of collection.add: a record whose id is already
\* stored replaces it
CollectionAdd_Upsert(items, ids, embeddings, documents, metadatas) ==
    IF HasDuplicates(ids) THEN [raised |-> TRUE, items |-> items]
    ELSE [raised |-> FALSE,
          items |-> {r \in items : \A j \in 1..Len(ids) : r.id # ids[j]} \cup
              {[id |-> ids[i], embedding |-> embeddings[i],
                document |-> documents[i], metadata |-> metadatas[i]] :
                   i \in 1..Len(ids)}]

\* collection.add(ids, embeddings, documents, metadatas): a batch with a
\* repeated id is rejected (DuplicateIDError); a record whose id is already
\* stored is ignored; every other record is stored
CollectionAdd(items, ids, embeddings, documents, metadatas) ==
    IF HasDuplicates(ids) THEN [raised |-> TRUE, items |-> items]
    ELSE [raised |-> FALSE,
          items |-> items \cup
              {[id |-> ids[i], embedding |-> embeddings[i],
                document |-> documents[i], metadata |-> metadatas[i]] :
                   i \in {j \in 1..Len(ids) : \A r \in items : r.id # ids[j]}}]

\* the where clause of collection.query on a record's metadata
Satisfies(r, filter) ==
    filter = "None" \/ r.metadata.source_document = filter

\* the sequences over a set, without repetition, of length n
RECURSIVE Arrangements(_, _)
Arrangements(set, n) ==
    IF n = 0 THEN {<<>>}
    ELSE UNION {{<<x>> \o rest : rest \in Arrangements(set \ {x}, n - 1)} : x \in set}

\* collection.query(query_embeddings=[q], n_results=n, where=filter): the n
\* nearest records that satisfy the filter (all of them if fewer), nearest
\* first; records at equal distance come in any order
CollectionQuery(items, q, n, filter) ==
    LET match == {r \in items : Satisfies(r, filter)}
        k == IF Cardinality(match) < n THEN Cardinality(match) ELSE n
        dist(r) == CosineDistance(q, r.embedding)
    IN {rs \in Arrangements(match, k) :
            /\ \A i \in 1..(k - 1) : dist(rs[i]) <= dist(rs[i + 1])
            /\ \A r \in match :
                   (\A i \in 1..k : rs[i] # r) => \A i \in 1..k : dist(rs[i]) <= dist(r)}

(***************************************************************************)
(* Inputs of the vector index.                                             *)
(***************************************************************************)
FileType(filename) == IF filename = "a.md" THEN "md" ELSE "txt"

Filenames == {"a.md", "b.txt"}

\* document contents: none, one chunk, two chunks whose first is the text of
\* the one-chunk document, and two other single chunks
Contents ==
    {<<>>, <<"a", "b", "c">>, <<"a", "b", "c", " ", "d", "e">>,
     <<"d", "e", " ", "f", "g">>, <<"f", "g">>}

Docs ==
    {[content |-> c, metadata |-> [filename |-> f, file_type |-> FileType(f)]] :
        c \in Contents, f \in Filenames}

\* the uploads of at most MaxDocs documents, each file named once
DocLists ==
    {documents \in UNION {[1..n -> Docs] : n \in 0..MaxDocs} :
        \A i, j \in 1..Len(documents) :
            i # j => documents[i].metadata.filename # documents[j].metadata.filename}

QueryTexts == {<<"d">>, <<"e">>}

\* n_results: 0 for None (not given), or 1..MaxK
NResults == 0..MaxK

\* filter_dict: none, or {'source_document': name}
Filters == {"None", "a.md", "b.txt", "c.json"}

(***************************************************************************)
(* VectorStore                                                             *)
(***************************************************************************)
\* VectorStore.__init__: the client after get_or_create_collection
InitialClient == GetOrCreateCollection({}, COLLECTION_NAME, "cosine")

\* create_metadata_dict(source_document, chunk_index, total_chunks, file_type)
create_metadata_dict(source, index, total, fileType) ==
    [source_document |-> source, chunk_index |-> index,
     total_chunks |-> total, file_type |-> fileType]

\* the chunks of one document with their ids and metadata (the inner loop of
\* add_documents); chunk_index counts from 0
DocChunks(doc) ==
    LET chunks == SplitText(doc.content)
    IN [i \in 1..Len(chunks) |->
           [id |-> generate_chunk_id(chunks[i], i - 1),
            text |-> chunks[i],
            metadata |-> create_metadata_dict(doc.metadata.filename, i - 1,
                                              Len(chunks), doc.metadata.file_type)]]

\* DocChunks of every document of the model, computed once
DocChunksOf == [doc \in Docs |-> DocChunks(doc)]

RECURSIVE AllChunks(_)
\* the outer loop of add_documents: documents without content are skipped
AllChunks(documents) ==
    IF documents = <<>> THEN <<>>
    ELSE (IF Head(documents).content = <<>> THEN <<>> ELSE DocChunksOf[Head(documents)])
         \o AllChunks(Tail(documents))

\* what can go wrong inside add_documents: nothing, split_text raising,
\* embed_batch raising, collection.add raising
Faults == {"none", "split", "embed", "write"}

\* a variant that stores chunk by chunk, each with its own collection.add
RECURSIVE StoreBatch_PerChunk(_, _, _)
StoreBatch_PerChunk(items, all, fault) ==
    IF all = <<>> THEN [raised |-> FALSE, items |-> items, written |-> <<>>]
    ELSE IF fault = "embed" THEN [raised |-> TRUE, items |-> items, written |-> <<>>]
    ELSE LET first == CollectionAdd(items, <<all[1].id>>, embed_batch(<<all[1].text>>),
                                    <<all[1].text>>, <<all[1].metadata>>)
             rest == StoreBatch_PerChunk(first.items, Tail(all),
                                         IF fault = "write" THEN "embed" ELSE fault)
         IN [raised |-> first.raised \/ rest.raised, items |-> rest.items,
             written |-> <<<<all[1].id>>>> \o rest.written]

\* add_documents from embed_batch on: embed every chunk, then pass the whole
\* batch to collection.add once; a collection.add that raises stores nothing.
\* written lists the batches of ids passed to collection.add
StoreBatch(items, all, fault) ==
    LET all_chunks == [i \in 1..Len(all) |-> all[i].text]
        all_ids == [i \in 1..Len(all) |-> all[i].id]
        all_metadatas == [i \in 1..Len(all) |-> all[i].metadata]
        added == CollectionAdd(items, all_ids, embed_batch(all_chunks),
                               all_chunks, all_metadatas)
    IN IF fault = "embed" THEN [raised |-> TRUE, items |-> items, written |-> <<>>]
       ELSE IF fault = "write" \/ added.raised
       THEN [raised |-> TRUE, items |-> items, written |-> <<all_ids>>]
       ELSE [raised |-> FALSE, items |-> added.items, written |-> <<all_ids>>]

\* VectorStore.add_documents(documents) on a collection holding `items`, where
\* `all` is AllChunks(documents), under a fault: the outcome, the returned
\* dict, the ids generated, the batches written and the items the collection
\* holds afterwards
add_documents_under(items, documents, all, fault) ==
    LET all_ids == [i \in 1..Len(all) |-> all[i].id]
        failure == [success |-> FALSE, total_chunks |-> 0, total_documents |-> 0]
    IN IF fault = "split" /\ \E i \in 1..Len(documents) : documents[i].content # <<>>
       THEN [outcome |-> "raised", ids |-> <<>>, items |-> items,
             written |-> <<>>, result |-> failure]
       ELSE IF all = <<>>
       THEN [outcome |-> "returned", ids |-> all_ids, items |-> items,
             written |-> <<>>, result |-> failure]
       ELSE \* the value of StoreBatch is bound once
            CHOOSE r \in {IF stored.raised
                          THEN [outcome |-> "raised", ids |-> all_ids, items |-> stored.items,
                                written |-> stored.written, result |-> failure]
                          ELSE [outcome |-> "returned", ids |-> all_ids, items |-> stored.items,
                                written |-> stored.written,
                                result |-> [success |-> TRUE, total_chunks |-> Len(all),
                                            total_documents |-> Len(documents)]] :
                             stored \in {StoreBatch(items, all, fault)}} : TRUE

\* add_documents when nothing goes wrong
add_documents(items, documents, all) == add_documents_under(items, documents, all, "none")

\* a variant of the score that forgets to turn the distance into a similarity
Score_Distance(distance) == distance

\* 'score': 1 - results['distances'][0][i]
Score(distance) == 1 - distance

\* the formatting loop of VectorStore.query over the records the collection returned
FormatResults(rs, q) ==
    [i \in 1..Len(rs) |->
        [text |-> rs[i].document,
         metadata |-> rs[i].metadata,
         score |-> Score(CosineDistance(q, rs[i].embedding)),
         source_document |-> rs[i].metadata.source_document]]

\* a query that stores the text it was asked about
AfterQuery_StoresQuery(cl) ==
    WithItems(cl, Collection(cl).items
                    \cup {[id |-> <<"query">>, embedding |-> embed_text(<<"a">>),
                           document |-> <<"a">>,
                           metadata |-> create_metadata_dict("", 0, 1, "")]})

\* the client after VectorStore.query: embed_text and collection.query read,
\* neither adds, changes or deletes a record
AfterQuery(cl) == cl

\* VectorStore.query(query_text, n_results, filter_dict): the lists it can
\* return; n_results = 0 stands for None
query(items, query_text, n_results, filter) ==
    LET n == IF n_results = 0 THEN TOP_K_RESULTS ELSE n_results
        q == embed_text(query_text)
    IN {FormatResults(rs, q) : rs \in CollectionQuery(items, q, n, filter)}

\* the order of the source document names under Python's string comparison
NameRank(name) ==
    CASE name = "a.md" -> 1 [] name = "b.txt" -> 2 [] name = "c.json" -> 3
      [] OTHER -> 4

RECURSIVE SortedNames(_)
\* sorted(list(sources))
SortedNames(set) ==
    IF set = {} THEN <<>>
    ELSE LET least == CHOOSE x \in set : \A y \in set : NameRank(x) <= NameRank(y)
         IN <<least>> \o SortedNames(set \ {least})

\* collection.get(limit=n): at most n of the stored records; which ones is
\* the collection's choice
CollectionGet(items, n) ==
    {got \in SUBSET items :
        Cardinality(got) = IF Cardinality(items) < n THEN Cardinality(items) ELSE n}

\* VectorStore.get_all_documents: the distinct non-empty source documents of
\* the records collection.get(limit) returns, sorted; the set of the lists it
\* can return
get_all_documents(items) ==
    {SortedNames({r.metadata.source_document :
                     r \in {x \in got : x.metadata.source_document # ""}}) :
        got \in CollectionGet(items, GetLimit)}

\* VectorStore.get_stats: the set of the results it can return
get_stats(cl) ==
    {[total_chunks |-> Cardinality(Collection(cl).items),
      total_documents |-> Len(documents),
      collection_name |-> COLLECTION_NAME,
      documents |-> documents] :
        documents \in get_all_documents(Collection(cl).items)}

\* a variant of clear_collection that recreates without deleting first
clear_collection_NoDelete(cl) ==
    GetOrCreateCollection(cl, COLLECTION_NAME, "cosine")

\* VectorStore.clear_collection: delete the collection and create it again
clear_collection(cl) ==
    GetOrCreateCollection(DeleteCollection(cl, COLLECTION_NAME), COLLECTION_NAME, "cosine")

(***************************************************************************)
(* RAGService.format_context                                               *)
(***************************************************************************)
NoContext == <<"No relevant documentation found.">>

\* f"{score:.2f}" of a whole-number score
FormatScore(score) ==
    IF score < 0 THEN "-" \o ToString(0 - score) \o ".00" ELSE ToString(score) \o ".00"

RECURSIVE JoinWith(_, _)
\* sep.join(parts)
JoinWith(parts, sep) ==
    IF parts = <<>> THEN <<>>
    ELSE IF Len(parts) = 1 THEN Head(parts)
    ELSE Head(parts) \o sep \o JoinWith(Tail(parts), sep)

\* f"=== From {source} (relevance: {score:.2f}) ===\n{text}\n"
ContextPart(chunk) ==
    <<"=== From ", chunk.source_document, " (relevance: ", FormatScore(chunk.score),
      ") ===", NL>> \o chunk.text \o <<NL>>

\* a variant without the check for an empty retrieval
format_context_NoSentinel(retrieved_chunks) ==
    JoinWith([i \in 1..Len(retrieved_chunks) |-> ContextPart(retrieved_chunks[i])], <<NL>>)

\* RAGService.format_context(retrieved_chunks)
format_context(retrieved_chunks) ==
    IF retrieved_chunks = <<>> THEN NoContext
    ELSE JoinWith([i \in 1..Len(retrieved_chunks) |-> ContextPart(retrieved_chunks[i])], <<NL>>)

(***************************************************************************)
(* Spec: the vector index under add_documents, query, format_context,      *)
(* get_stats and clear_collection.                                         *)
(***************************************************************************)
Items == Collection(client).items

Init ==
    /\ client = InitialClient
    /\ last = NoCall
    /\ IdleAgent /\ IdleText
    /\ IdleParser /\ IdleRag /\ IdleScripts /\ IdleEmbedder /\ IdleGenerator

AddDocuments ==
    \E documents \in DocLists, fault \in Faults :
        \E r \in {add_documents_under(Items, documents, all, fault) :
                      all \in {AllChunks(documents)}} :
           /\ client' = WithItems(client, r.items)
           /\ last' = [op |-> "add", documents |-> documents, fault |-> fault,
                       outcome |-> r.outcome, ids |-> r.ids, written |-> r.written,
                       result |-> r.result, before |-> Items]
           /\ UNCHANGED <<gen, text, out, pc, parsed, rag, scripts, embedder, generated>>

Query ==
    \E query_text \in QueryTexts, n_results \in NResults, filter \in Filters :
        \E results \in query(Items, query_text, n_results, filter) :
            /\ last' = [op |-> "query", query_text |-> query_text,
                        n_results |-> n_results, filter |-> filter,
                        outcome |-> "returned", results |-> results, before |-> Items]
            /\ client' = AfterQuery(client)
            /\ UNCHANGED <<gen, text, out, pc, parsed, rag, scripts, embedder, generated>>

FormatContext ==
    /\ last.op = "query"
    /\ last' = [op |-> "format", retrieved_chunks |-> last.results,
                context |-> format_context(last.results), before |-> Items]
    /\ UNCHANGED <<client, gen, text, out, pc, parsed, rag, scripts, embedder, generated>>

GetStats ==
    /\ \E result \in get_stats(client) :
           last' = [op |-> "stats", result |-> result, before |-> Items]
    /\ UNCHANGED <<client, gen, text, out, pc, parsed, rag, scripts, embedder, generated>>

ClearCollection ==
    /\ client' = clear_collection(client)
    /\ last' = [op |-> "clear", before |-> Items]
    /\ UNCHANGED <<gen, text, out, pc, parsed, rag, scripts, embedder, generated>>

Next == AddDocuments \/ Query \/ FormatContext \/ GetStats \/ ClearCollection

Spec == Init /\ [][Next]_vars

\* C5 as stated: after add_documents(documents) on documents with content, a
\* second add_documents(documents) generates the same ids, succeeds, and leaves
\* the stored chunks (and so total_chunks) as the first call left them
C5_ReingestIdempotent ==
    (last.op = "add" /\ last.ids # <<>>) =>
        \A again \in {add_documents(Items, last.documents, all) :
                          all \in {AllChunks(last.documents)}} :
            /\ again.ids = last.ids
            /\ again.outcome = "returned" /\ again.result.success
            /\ again.items = Items
            /\ \A stats \in get_stats(client) :
                   Cardinality(again.items) = stats.total_chunks

\* C13 as stated: what get_stats returns lists, sorted and without
\* repetition, exactly the source documents of the chunks stored, counts
\* them, and counts the chunks stored
C13_StatsListStoredDocuments ==
    last.op = "stats" =>
        /\ last.result.documents =
               SortedNames({r.metadata.source_document : r \in Items})
        /\ last.result.total_documents = Len(last.result.documents)
        /\ last.result.total_chunks = Cardinality(Items)

\* C14: add_documents passes at most one batch to the collection, the batch
\* of every chunk of every document, and only if chunking and embedding went
\* through; under a fault it raises, and whenever it raises the collection
\* holds what it held before the call
C14_OneBatchOrNothing ==
    last.op = "add" =>
        /\ Len(last.written) <= 1
        /\ \A i \in 1..Len(last.written) :
               /\ last.written[i] =
                      [j \in 1..Len(AllChunks(last.documents)) |->
                          AllChunks(last.documents)[j].id]
               /\ last.fault \notin {"split", "embed"}
        /\ (last.fault # "none" /\ AllChunks(last.documents) # <<>>) =>
               last.outcome = "raised"
        /\ last.outcome = "raised" => Items = last.before
        /\ last.outcome = "returned" /\ last.result.success =>
               Len(last.written) = 1

\* the write of a batch of two chunks failed on a collection that held chunks
C14_Witness ==
    /\ last.op = "add" /\ last.fault = "write"
    /\ Len(last.written) = 1 /\ Len(last.written[1]) >= 2
    /\ last.outcome = "raised"
    /\ last.before # {} /\ Items = last.before

\* C15: every step other than clear_collection keeps every stored chunk as
\* it is, with its id, text, metadata and embedding
C15_ChunksOnlyAdded ==
    [][last'.op # "clear" => Items \subseteq Items']_vars

\* a document was ingested again with another content: its earlier chunk is
\* stored next to the new one
C15_Witness ==
    /\ last.op = "add" /\ last.outcome = "returned"
    /\ \E old \in last.before, new \in Items \ last.before :
           /\ old \in Items
           /\ old.metadata.source_document = new.metadata.source_document
           /\ old.metadata.chunk_index = new.metadata.chunk_index
           /\ old.document # new.document

\* C6: once clear_collection has returned, get_stats reports no chunks and no
\* documents, the collection exists once under its name with the cosine space
\* and is empty, and every query on it returns nothing
C6_ClearLeavesEmptyCollection ==
    last.op = "clear" =>
        /\ \A stats \in get_stats(client) :
               /\ stats.total_chunks = 0
               /\ stats.total_documents = 0
               /\ stats.documents = <<>>
        /\ Cardinality({c \in client : c.name = COLLECTION_NAME}) = 1
        /\ Collection(client).space = "cosine"
        /\ Collection(client).items = {}
        /\ \A q \in QueryTexts, n \in NResults, f \in Filters :
               query(Items, q, n, f) = {<<>>}

\* clear_collection has returned on a collection that held chunks
C6_Witness == last.op = "clear" /\ Cardinality(last.before) >= 2

\* C7: the list query returns is in non-increasing score order, and each score
\* is 1 minus the distance of that match from the query, negative or not
C7_ScoresNonIncreasing ==
    last.op = "query" =>
        /\ \A i \in 1..(Len(last.results) - 1) :
               last.results[i].score >= last.results[i + 1].score
        /\ \A i \in 1..Len(last.results) :
               \E r \in Items :
                   /\ r.document = last.results[i].text
                   /\ r.metadata = last.results[i].metadata
                   /\ last.results[i].score =
                          1 - CosineDistance(embed_text(last.query_text), r.embedding)

\* a query has returned three matches of different scores, the last negative
C7_Witness ==
    /\ last.op = "query" /\ Len(last.results) = 3
    /\ last.results[1].score > last.results[2].score
    /\ last.results[2].score > last.results[3].score
    /\ last.results[3].score < 0

\* C8: a query on a collection in which no chunk satisfies the filter (an empty
\* collection included) returns the empty list without raising, and
\* format_context of the empty list is the sentinel sentence, not the empty string
C8_EmptyRetrieval ==
    /\ (last.op = "query" /\ \A r \in Items : ~Satisfies(r, last.filter)) =>
           (last.outcome = "returned" /\ last.results = <<>>)
    /\ (last.op = "format" /\ last.retrieved_chunks = <<>>) =>
           (last.context = NoContext /\ last.context # <<>>)

\* format_context has formatted the empty result of a query on a collection
\* that holds chunks (none of which satisfied the filter)
C8_Witness ==
    last.op = "format" /\ last.retrieved_chunks = <<>> /\ Items # {}

(***************************************************************************)
(* Model replies.  A reply is a sequence of tokens [k, s]: the fences        *)
(* (three backticks, with or without the json tag), the JSON punctuation,   *)
(* string literals (s is the string),                                      *)
(* numbers, null, and "text" for a run of prose.  Whitespace between tokens  *)
(* is left out: json.loads and the \s* of the patterns skip it.              *)
(***************************************************************************)
Tok(k) == [k |-> k, s |-> ""]
Str(str) == [k |-> "str", s |-> str]
Num(str) == [k |-> "num", s |-> str]
FenceJson == Tok("fence_json")
Fence == Tok("fence")
LBracket == Tok("[")
RBracket == Tok("]")
LBrace == Tok("{")
RBrace == Tok("}")
Comma == Tok(",")
Colon == Tok(":")
Null == Tok("null")
Prose == Tok("text")

\* parsed JSON values: t is the type, s the scalar, items the elements of an
\* array or the member values of an object, keys the member names of an object
VStr(str) == [t |-> "str", s |-> str, keys |-> <<>>, items |-> <<>>]
VNum(str) == [t |-> "num", s |-> str, keys |-> <<>>, items |-> <<>>]
VNull == [t |-> "null", s |-> "", keys |-> <<>>, items |-> <<>>]
VArr(items) == [t |-> "arr", s |-> "", keys |-> <<>>, items |-> items]
VObj(keys, items) == [t |-> "obj", s |-> "", keys |-> keys, items |-> items]

\* body applied to the value of an expression, evaluated once
With(value, Body(_)) == CHOOSE r \in {Body(v) : v \in {value}} : TRUE

ParseFail == [ok |-> FALSE, next |-> 0, val |-> VNull]
ParseOk(val, next) == [ok |-> TRUE, next |-> next, val |-> val]

\* 'key in d' for a parsed object
HasKey(obj, key) == \E i \in 1..Len(obj.keys) : obj.keys[i] = key

\* d[key]: of repeated member names json.loads keeps the last
Get(obj, key) ==
    obj.items[CHOOSE i \in 1..Len(obj.keys) :
                  /\ obj.keys[i] = key
                  /\ \A j \in 1..Len(obj.keys) : obj.keys[j] = key => j <= i]

\* d[key] = val
Set(obj, key, val) ==
    IF HasKey(obj, key)
    THEN VObj(obj.keys, [i \in 1..Len(obj.items) |->
                            IF obj.keys[i] = key THEN val ELSE obj.items[i]])
    ELSE VObj(Append(obj.keys, key), Append(obj.items, val))

RECURSIVE ParseValue(_, _)
RECURSIVE ParseElems(_, _, _)
RECURSIVE ParseMembers(_, _, _, _)

\* the JSON decoder on the tokens from position i: one value
ParseValue(toks, i) ==
    IF i > Len(toks) THEN ParseFail
    ELSE CASE toks[i].k = "str" -> ParseOk(VStr(toks[i].s), i + 1)
           [] toks[i].k = "num" -> ParseOk(VNum(toks[i].s), i + 1)
           [] toks[i].k = "null" -> ParseOk(VNull, i + 1)
           [] toks[i].k = "[" ->
                IF i + 1 <= Len(toks) /\ toks[i + 1].k = "]"
                THEN ParseOk(VArr(<<>>), i + 2)
                ELSE ParseElems(toks, i + 1, <<>>)
           [] toks[i].k = "{" ->
                IF i + 1 <= Len(toks) /\ toks[i + 1].k = "}"
                THEN ParseOk(VObj(<<>>, <<>>), i + 2)
                ELSE ParseMembers(toks, i + 1, <<>>, <<>>)
           [] OTHER -> ParseFail

\* the elements of an array, after "[" or ","
ParseElems(toks, i, acc) ==
    With(ParseValue(toks, i), LAMBDA v :
        IF ~v.ok \/ v.next > Len(toks) THEN ParseFail
        ELSE IF toks[v.next].k = "," THEN ParseElems(toks, v.next + 1, Append(acc, v.val))
        ELSE IF toks[v.next].k = "]" THEN ParseOk(VArr(Append(acc, v.val)), v.next + 1)
        ELSE ParseFail)

\* the members of an object, after "{" or ","
ParseMembers(toks, i, keys, vals) ==
    IF i + 1 > Len(toks) \/ toks[i].k # "str" \/ toks[i + 1].k # ":" THEN ParseFail
    ELSE With(ParseValue(toks, i + 2), LAMBDA v :
        IF ~v.ok \/ v.next > Len(toks) THEN ParseFail
        ELSE IF toks[v.next].k = ","
             THEN ParseMembers(toks, v.next + 1, Append(keys, toks[i].s), Append(vals, v.val))
        ELSE IF toks[v.next].k = "}"
             THEN ParseOk(VObj(Append(keys, toks[i].s), Append(vals, v.val)), v.next + 1)
        ELSE ParseFail)

\* json.loads(json_str): the whole text must be one value; ok = FALSE stands
\* for JSONDecodeError
json_loads(toks) ==
    With(ParseValue(toks, 1), LAMBDA r :
        IF r.ok /\ r.next = Len(toks) + 1
        THEN [ok |-> TRUE, val |-> r.val]
        ELSE [ok |-> FALSE, val |-> VNull])

(***************************************************************************)
(* TestCaseAgent._extract_json_from_response                               *)
(***************************************************************************)
IsFence(tok) == tok.k = "fence_json" \/ tok.k = "fence"

\* the opening positions of the fenced-block pattern (json_pattern): a json
\* fence with a fence somewhere after it
FenceOpenings(toks) ==
    {i \in 1..Len(toks) :
        toks[i].k = "fence_json" /\ \E j \in (i + 1)..Len(toks) : IsFence(toks[j])}

\* match.group(1): from the first opening to the nearest fence after it
FencedBlock(toks) ==
    LET i == CHOOSE x \in FenceOpenings(toks) : \A y \in FenceOpenings(toks) : x <= y
        j == CHOOSE x \in (i + 1)..Len(toks) :
                 IsFence(toks[x]) /\ \A y \in (i + 1)..(x - 1) : ~IsFence(toks[y])
    IN SubSeq(toks, i + 1, j - 1)

\* re.search(r'\[.*\]') matches: some "]" follows the first "["
HasArraySpan(toks) ==
    \E i, j \in 1..Len(toks) : i < j /\ toks[i].k = "[" /\ toks[j].k = "]"

\* match.group(0): from the first "[" to the last "]"
ArraySpan(toks) ==
    LET i == CHOOSE x \in 1..Len(toks) :
                 toks[x].k = "[" /\ \A y \in 1..(x - 1) : toks[y].k # "["
        j == CHOOSE x \in 1..Len(toks) :
                 toks[x].k = "]" /\ \A y \in (x + 1)..Len(toks) : toks[y].k # "]"
    IN SubSeq(toks, i, j)

\* the three candidates, in the order of the patterns
Candidates(toks) ==
    (IF FenceOpenings(toks) # {} THEN <<FencedBlock(toks)>> ELSE <<>>)
    \o (IF HasArraySpan(toks) THEN <<ArraySpan(toks)>> ELSE <<>>)
    \o <<toks>>

\* json_str: the text of the first pattern that matches
json_str(response_text) ==
    IF FenceOpenings(response_text) # {} THEN FencedBlock(response_text)
    ELSE IF HasArraySpan(response_text) THEN ArraySpan(response_text)
    ELSE response_text

\* _extract_json_from_response: the decoded payload, a single object wrapped
\* in a list; ok = FALSE stands for the None returned on JSONDecodeError
extract_json_from_response(response_text) ==
    With(json_loads(json_str(response_text)), LAMBDA data :
        IF ~data.ok THEN [ok |-> FALSE, data |-> VNull]
        ELSE IF data.val.t = "obj" THEN [ok |-> TRUE, data |-> VArr(<<data.val>>)]
        ELSE [ok |-> TRUE, data |-> data.val])

(***************************************************************************)
(* The TestCase and TestCaseResponse models (backend/models.py).           *)
(***************************************************************************)
TestTypes == {"positive", "negative", "edge_case"}

StringFields ==
    {"test_id", "feature", "test_scenario", "test_type", "preconditions",
     "expected_result", "grounded_in"}

\* TestCase(**tc_data) validates: every field of the Test Case shape is
\* there with its type; other keys are ignored
ValidTestCase(d) ==
    /\ \A f \in StringFields : HasKey(d, f) /\ Get(d, f).t = "str"
    /\ Get(d, "test_type").s \in TestTypes
    /\ HasKey(d, "test_steps") /\ Get(d, "test_steps").t = "arr"
    /\ \A i \in 1..Len(Get(d, "test_steps").items) :
           Get(d, "test_steps").items[i].t = "str"

\* the TestCase object built from a valid tc_data
TestCase(d) ==
    [test_id |-> Get(d, "test_id").s,
     feature |-> Get(d, "feature").s,
     test_scenario |-> Get(d, "test_scenario").s,
     test_type |-> Get(d, "test_type").s,
     preconditions |-> Get(d, "preconditions").s,
     test_steps |-> [i \in 1..Len(Get(d, "test_steps").items) |->
                        Get(d, "test_steps").items[i].s],
     expected_result |-> Get(d, "expected_result").s,
     grounded_in |-> Get(d, "grounded_in").s]

TestCaseResponse(success, message, test_cases) ==
    [success |-> success, message |-> message,
     test_cases |-> test_cases, total_cases |-> Len(test_cases)]

(***************************************************************************)
(* TestCaseAgent                                                           *)
(***************************************************************************)
\* generate_test_id(index) == f"TC-{index:03d}"
generate_test_id(index) ==
    IF index < 10 THEN "TC-00" \o ToString(index)
    ELSE IF index < 100 THEN "TC-0" \o ToString(index)
    ELSE "TC-" \o ToString(index)

RECURSIVE JoinNames(_)
\* ", ".join(names)
JoinNames(names) ==
    IF names = <<>> THEN ""
    ELSE IF Len(names) = 1 THEN Head(names)
    ELSE Head(names) \o ", " \o JoinNames(Tail(names))

\* a variant that returns the joined sources even when there are none
infer_source_documents_NoDefault(retrieved_chunks) ==
    LET top == SubSeq(retrieved_chunks, 1, IF Len(retrieved_chunks) < 3
                                           THEN Len(retrieved_chunks) ELSE 3)
    IN JoinNames(SortedNames({top[i].source_document : i \in 1..Len(top)} \ {""}))

\* _infer_source_documents: the sorted distinct sources of the first three
\* retrieved chunks, comma-joined; "documentation" when there is none
infer_source_documents(retrieved_chunks) ==
    LET top == SubSeq(retrieved_chunks, 1, IF Len(retrieved_chunks) < 3
                                           THEN Len(retrieved_chunks) ELSE 3)
        sources == {top[i].source_document : i \in 1..Len(top)} \ {""}
    IN IF retrieved_chunks = <<>> THEN "documentation"
       ELSE IF sources # {} THEN JoinNames(SortedNames(sources))
       ELSE "documentation"

\* Python truth value of a decoded payload
Truthy(v) ==
    CASE v.t = "arr" -> v.items # <<>>
      [] v.t = "obj" -> v.keys # <<>>
      [] v.t = "str" -> v.s # ""
      [] v.t = "num" -> v.s # "0"
      [] OTHER -> FALSE

\* the body of the loop of generate_test_cases for item number i (from 0):
\* the two back-fills, then validation.  An item that is no object, or that
\* does not validate, raises inside the inner try and is skipped.
ProcessItem(tc_data, i, retrieved_chunks) ==
    IF tc_data.t # "obj" THEN [valid |-> FALSE, tc_data |-> tc_data]
    ELSE LET d1 == IF ~HasKey(tc_data, "test_id")
                   THEN Set(tc_data, "test_id", VStr(generate_test_id(i + 1)))
                   ELSE tc_data
             d2 == IF ~HasKey(d1, "grounded_in") \/ ~Truthy(Get(d1, "grounded_in"))
                   THEN Set(d1, "grounded_in",
                            VStr(infer_source_documents(retrieved_chunks)))
                   ELSE d1
         IN [valid |-> ValidTestCase(d2), tc_data |-> d2]

RECURSIVE ProcessItems_AbortAtInvalid(_, _, _, _)
\* a loop that gives up the batch at the first item that does not validate
ProcessItems_AbortAtInvalid(items, i, retrieved_chunks, test_cases) ==
    IF i >= Len(items) THEN test_cases
    ELSE With(ProcessItem(items[i + 1], i, retrieved_chunks), LAMBDA r :
            IF r.valid
            THEN ProcessItems_AbortAtInvalid(items, i + 1, retrieved_chunks,
                                             Append(test_cases, TestCase(r.tc_data)))
            ELSE <<>>)

RECURSIVE ProcessItems(_, _, _, _)
\* the loop of generate_test_cases over the items from number i on
ProcessItems(items, i, retrieved_chunks, test_cases) ==
    IF i >= Len(items) THEN test_cases
    ELSE With(ProcessItem(items[i + 1], i, retrieved_chunks), LAMBDA r :
            ProcessItems(items, i + 1, retrieved_chunks,
                         IF r.valid THEN Append(test_cases, TestCase(r.tc_data))
                         ELSE test_cases))

\* generate_test_cases from the reply on, inside the outer try: the response
\* returned, or raised = TRUE for an exception that reaches the outer handler
\* (enumerate() of a payload that is no list or string)
FromReply(response_text, retrieved_chunks) ==
    With(extract_json_from_response(response_text), LAMBDA x :
        IF ~x.ok \/ ~Truthy(x.data)
        THEN [raised |-> FALSE,
              response |-> TestCaseResponse(FALSE, "Failed to parse test cases from LLM response", <<>>)]
        ELSE IF x.data.t = "num"
        THEN [raised |-> TRUE, response |-> TestCaseResponse(FALSE, "", <<>>)]
        ELSE With(ProcessItems(IF x.data.t = "arr" THEN x.data.items ELSE <<x.data>>,
                               0, retrieved_chunks, <<>>), LAMBDA test_cases :
            IF test_cases = <<>>
            THEN [raised |-> FALSE,
                  response |-> TestCaseResponse(FALSE, "No valid test cases generated", <<>>)]
            ELSE [raised |-> FALSE,
                  response |-> TestCaseResponse(TRUE, "Generated test cases", test_cases)]))

\* a variant without the outer handler: the exception leaves generate_test_cases
OuterHandler_Absent(r) ==
    IF r.raised THEN [outcome |-> "raised", response |-> r.response]
    ELSE [outcome |-> "returned", response |-> r.response]

\* the outer try/except of generate_test_cases: an exception becomes a
\* failure response
OuterHandler(r) ==
    IF r.raised
    THEN [outcome |-> "returned",
          response |-> TestCaseResponse(FALSE, "Error generating test cases", <<>>)]
    ELSE [outcome |-> "returned", response |-> r.response]

Raised == [raised |-> TRUE, response |-> TestCaseResponse(FALSE, "", <<>>)]

\* enhanced_query: the query, with the request for negative scenarios appended
EnhancedQuery(user_query, include_negative) ==
    IF include_negative THEN user_query \o <<" ", "I">> ELSE user_query

(***************************************************************************)
(* Replies of the chat-completion model.                                   *)
(***************************************************************************)
\* the most items in a JSON array of a reply
MaxItems == 2

Member(key, value) == <<Str(key), Colon>> \o value

Object(members) == <<LBrace>> \o JoinWith(members, <<Comma>>) \o <<RBrace>>

Array(elements) == <<LBracket>> \o JoinWith(elements, <<Comma>>) \o <<RBracket>>

\* the fields of a test case other than test_id and grounded_in; "no_steps"
\* leaves out test_steps, the only array-valued field
OtherMembers(kind) ==
    << Member("feature", <<Str("discount")>>),
       Member("test_scenario", <<Str("apply code")>>),
       Member("test_type", <<Str("positive")>>),
       Member("preconditions", <<Str("cart")>>) >>
    \o (IF kind = "complete"
        THEN <<Member("test_steps", Array(<< <<Str("s1")>>, <<Str("s2")>> >>))>>
        ELSE <<>>)
    \o <<Member("expected_result", <<Str("total")>>)>>

\* one test case as the model writes it: test_id and grounded_in given or not
\* ("absent"), grounded_in possibly the empty string
ItemText(id, grounded, kind) ==
    Object((IF id = "absent" THEN <<>> ELSE <<Member("test_id", <<Str(id)>>)>>)
           \o OtherMembers(kind)
           \o (IF grounded = "absent" THEN <<>>
               ELSE <<Member("grounded_in", <<Str(grounded)>>)>>))

ItemTexts ==
    {ItemText(id, grounded, kind) :
        id \in {"absent", "TC-002"}, grounded \in {"absent", "", "a.md"},
        kind \in {"complete", "no_steps"}}

\* what the model puts where the payload belongs: an array of test cases, a
\* single test case, a scalar, an array of scalars, or prose
\* the test cases that occur in arrays: the complete ones, and one that
\* lacks test_steps (and so does not validate)
ArrayItemTexts ==
    {ItemText(id, grounded, "complete") :
        id \in {"absent", "TC-002"}, grounded \in {"absent", "", "a.md"}}
    \cup {ItemText("absent", "absent", "no_steps")}

Payloads ==
    {Array(items) : items \in UNION {[1..n -> ArrayItemTexts] : n \in 0..MaxItems}}
    \cup ItemTexts
    \cup {<<Num("5")>>, <<Str("none")>>, <<Null>>, <<Prose>>, <<>>,
          Array(<< <<Num("5")>> >>)}

\* the payload bare, in a json fence, or in a plain fence
Wrapped(payload) ==
    {payload, <<FenceJson>> \o payload \o <<Fence>>, <<Fence>> \o payload \o <<Fence>>}

\* prose around the payload; prose may hold brackets, as in "see [1]"
Before == {<<>>, <<Prose>>}
After == {<<>>, <<Prose>>, <<Prose, LBracket, Num("1"), RBracket>>}

Replies ==
    {pre \o body \o post :
        pre \in Before, body \in UNION {Wrapped(p) : p \in Payloads}, post \in After}

(***************************************************************************)
(* SpecAgent: generate_test_cases on an index that holds nothing, one       *)
(* document, or several.                                                   *)
(***************************************************************************)
Doc(content, filename) ==
    [content |-> content, metadata |-> [filename |-> filename, file_type |-> FileType(filename)]]

\* the document lists ingested before the agent runs
AgentDocLists ==
    { <<>>,
      <<Doc(<<"a", "b", "c">>, "a.md")>>,
      <<Doc(<<"a", "b", "c", " ", "d", "e">>, "b.txt"), Doc(<<"f", "g">>, "a.md"),
        Doc(<<"d", "e", " ", "f", "g">>, "b.txt")>> }

AgentClients ==
    {WithItems(InitialClient, add_documents({}, docs, AllChunks(docs)).items) :
        docs \in AgentDocLists}

AgentInit ==
    /\ client \in AgentClients
    /\ last = NoCall
    /\ gen = NoCall
    /\ rag = NoCall
    /\ IdleText
    /\ IdleParser /\ IdleScripts /\ IdleEmbedder /\ IdleGenerator

\* generate_test_cases(user_query, include_negative), one call per run (the
\* agent keeps no state between calls).  rag_query(enhanced_query, n_results=8)
\* retrieves, formats and calls the model; retrieval and completion may raise
GenerateTestCases ==
    /\ gen = NoCall /\ rag = NoCall
    /\ \E user_query \in QueryTexts, include_negative \in BOOLEAN :
        \/ \* retrieval raises
           /\ gen' = [op |-> "generate", step |-> "retrieve_raised",
                      retrieved_chunks |-> <<>>, reply |-> <<>>,
                      call |-> OuterHandler(Raised)]
           /\ client' = AfterQuery(client)
           /\ UNCHANGED <<last, text, out, pc, parsed, rag, scripts, embedder, generated>>
        \/ \E retrieved_chunks \in
                  query(Items, EnhancedQuery(user_query, include_negative), 8, "None") :
              \/ \* the completion call raises
                 /\ gen' = [op |-> "generate", step |-> "generate_raised",
                            retrieved_chunks |-> retrieved_chunks, reply |-> <<>>,
                            call |-> OuterHandler(Raised)]
                 /\ client' = AfterQuery(client)
                 /\ UNCHANGED <<last, text, out, pc, parsed, rag, scripts, embedder, generated>>
              \/ \E reply \in Replies :
                    /\ gen' = [op |-> "generate", step |-> "replied",
                               retrieved_chunks |-> retrieved_chunks, reply |-> reply,
                               call |-> OuterHandler(FromReply(reply, retrieved_chunks))]
                    /\ client' = AfterQuery(client)
                    /\ UNCHANGED <<last, text, out, pc, parsed, rag, scripts, embedder, generated>>

(***************************************************************************)
(* RAGService.rag_query.  The completion provider answers its k-th call    *)
(* with the k-th element of `provider` (its last one from then on): a      *)
(* failure with a message, or a reply.                                     *)
(***************************************************************************)
ProviderMessages == {"rate limit exceeded", "connection timed out"}

Completions ==
    {[ok |-> FALSE, message |-> msg, content |-> <<>>] : msg \in ProviderMessages}
    \cup {[ok |-> TRUE, message |-> "", content |-> reply] :
             reply \in {<<Prose>>, <<LBracket, RBracket>>}}

Providers == [1..2 -> Completions]

\* self.client.chat.completions.create, the k-th call
Create(provider, k) == IF k <= Len(provider) THEN provider[k] ELSE provider[Len(provider)]

\* the user message generate_response builds from the context and the query
UserMessage(context, user_query) ==
    <<"Based on the following documentation:">> \o context
        \o <<"User Request: ">> \o user_query

\* a generate_response that calls the provider again after a failure
generate_response_Retry(user_query, context, system_prompt, provider) ==
    LET first == Create(provider, 1)
        second == Create(provider, 2)
        sent == [system |-> system_prompt, user |-> UserMessage(context, user_query)]
    IN IF first.ok
       THEN [raised |-> FALSE, error |-> <<>>, response |-> first.content, sent |-> <<sent>>]
       ELSE [raised |-> ~second.ok,
             error |-> IF second.ok THEN <<>>
                       ELSE <<"LLM generation failed: ", second.message>>,
             response |-> second.content, sent |-> <<sent, sent>>]

\* RAGService.generate_response: one call of the provider; its failure is
\* raised again as Exception(f"LLM generation failed: {str(e)}").  sent lists
\* the requests made
generate_response(user_query, context, system_prompt, provider) ==
    LET first == Create(provider, 1)
        sent == [system |-> system_prompt, user |-> UserMessage(context, user_query)]
    IN IF first.ok
       THEN [raised |-> FALSE, error |-> <<>>, response |-> first.content, sent |-> <<sent>>]
       ELSE [raised |-> TRUE, error |-> <<"LLM generation failed: ", first.message>>,
             response |-> <<>>, sent |-> <<sent>>]

\* RAGService.retrieve_context: vector_store.query with n_results or
\* TOP_K_RESULTS (n_results 0 stands for None); the lists it can return
retrieve_context(items, q, n_results, filter) ==
    query(items, q, IF n_results = 0 THEN TOP_K_RESULTS ELSE n_results, filter)

\* a rag_query that asks the provider before it looks at the retrieval
rag_query_GenerateFirst(retrieval, user_query, system_prompt, provider) ==
    LET g == generate_response(user_query, NoContext, system_prompt, provider)
    IN IF retrieval.raised \/ g.raised
       THEN [outcome |-> "raised", error |-> g.error,
             steps |-> <<"generate", "retrieve">>, sent |-> g.sent, result |-> None]
       ELSE [outcome |-> "returned", error |-> <<>>,
             steps |-> <<"generate", "retrieve", "format">>, sent |-> g.sent,
             result |-> Some([response |-> g.response,
                              context |-> format_context(retrieval.chunks),
                              retrieved_chunks |-> retrieval.chunks,
                              num_chunks |-> Len(retrieval.chunks)])]

\* RAGService.rag_query once retrieve_context has raised or returned: the
\* steps taken, the requests made to the provider, and what the call returns
\* or raises
rag_query(retrieval, user_query, system_prompt, provider) ==
    IF retrieval.raised
    THEN [outcome |-> "raised", error |-> <<"retrieval failed">>, steps |-> <<"retrieve">>,
          sent |-> <<>>, result |-> None]
    ELSE CHOOSE r \in
             {IF g.raised
              THEN [outcome |-> "raised", error |-> g.error,
                    steps |-> <<"retrieve", "format", "generate">>,
                    sent |-> g.sent, result |-> None]
              ELSE [outcome |-> "returned", error |-> <<>>,
                    steps |-> <<"retrieve", "format", "generate">>,
                    sent |-> g.sent,
                    result |-> Some([response |-> g.response,
                                     context |-> format_context(retrieval.chunks),
                                     retrieved_chunks |-> retrieval.chunks,
                                     num_chunks |-> Len(retrieval.chunks)])] :
                 g \in {generate_response(user_query, format_context(retrieval.chunks),
                                          system_prompt, provider)}} : TRUE

\* the outcomes of retrieve_context: it raises (the embedding model or the
\* collection fails), or returns one of the lists query can return
Retrievals(items, q, n_results, filter) ==
    {[raised |-> TRUE, chunks |-> <<>>]}
    \cup {[raised |-> FALSE, chunks |-> chunks] :
             chunks \in retrieve_context(items, q, n_results, filter)}

\* rag_query(user_query, system_prompt, n_results, filter_dict), one call per run
RagQuery ==
    /\ rag = NoCall /\ gen = NoCall
    /\ \E user_query \in QueryTexts, n_results \in NResults, filter \in Filters,
          provider \in Providers :
          \E retrieval \in Retrievals(Items, user_query, n_results, filter) :
              rag' = [op |-> "rag_query", user_query |-> user_query,
                      retrieval |-> retrieval, provider |-> provider,
                      call |-> rag_query(retrieval, user_query, "system", provider)]
    /\ client' = AfterQuery(client)
    /\ UNCHANGED <<last, gen, text, out, pc, parsed, scripts, embedder, generated>>

AgentNext == GenerateTestCases \/ RagQuery

SpecAgent == AgentInit /\ [][AgentNext]_vars

\* C1: every test case generate_test_cases returns has a non-empty grounded_in
C1_GroundedInNonEmpty ==
    gen.op = "generate" =>
        \A i \in 1..Len(gen.call.response.test_cases) :
            gen.call.response.test_cases[i].grounded_in # ""

\* a test case was accepted whose grounded_in the model gave as the empty
\* string, with nothing retrieved to fill it from
C1_Witness ==
    /\ gen.op = "generate" /\ gen.step = "replied"
    /\ gen.retrieved_chunks = <<>>
    /\ gen.reply = <<FenceJson>> \o Array(<<ItemText("TC-002", "", "complete")>>) \o <<Fence>>
    /\ gen.call.response.success
    /\ gen.call.response.test_cases[1].grounded_in = "documentation"

\* C2: generate_test_cases returns a response whatever retrieval, the
\* completion call and extraction do, and when no JSON payload can be
\* extracted the response is a failure with no test cases
C2_NeverRaises ==
    gen.op = "generate" =>
        /\ gen.call.outcome = "returned"
        /\ (gen.step # "replied" \/ ~extract_json_from_response(gen.reply).ok) =>
               /\ ~gen.call.response.success
               /\ gen.call.response.test_cases = <<>>
               /\ gen.call.response.total_cases = 0

\* the reply decoded to a number, which the loop cannot iterate, and the call
\* returned a failure response
C2_Witness ==
    /\ gen.op = "generate" /\ gen.step = "replied"
    /\ gen.reply = <<Num("5")>>
    /\ gen.call.outcome = "returned" /\ ~gen.call.response.success

\* C3 as stated: extraction returns a payload whenever at least one of the
\* three candidates (fenced block, bracketed span, whole reply) decodes, and
\* fails only if none does
C3_AnyCandidateDecodes ==
    (gen.op = "generate" /\ gen.step = "replied") =>
        (extract_json_from_response(gen.reply).ok
            <=> \E i \in 1..Len(Candidates(gen.reply)) :
                    json_loads(Candidates(gen.reply)[i]).ok)

\* the replies that are one JSON object in a fenced block, with or without the
\* json tag, with or without prose around the block
FencedObjectReplies(obj) ==
    {pre \o <<open>> \o obj \o <<Fence>> \o post :
        pre \in Before, open \in {FenceJson, Fence}, post \in {<<>>, <<Prose>>}}

\* C4 as stated: from a reply that wraps one JSON object in a fenced block,
\* extraction yields the one-element list of exactly that object
C4_FencedObjectPromoted ==
    (gen.op = "generate" /\ gen.step = "replied") =>
        \A obj \in ItemTexts :
            gen.reply \in FencedObjectReplies(obj) =>
                /\ extract_json_from_response(gen.reply).ok
                /\ extract_json_from_response(gen.reply).data = VArr(<<json_loads(obj).val>>)

(***************************************************************************)
(* helpers.clean_text                                                      *)
(***************************************************************************)
RECURSIVE CollapseWhitespace(_, _)
\* re.sub(r'\s+', ' ', text): every maximal run of whitespace becomes one space
CollapseWhitespace(s, inRun) ==
    IF s = <<>> THEN <<>>
    ELSE IF IsSpace(Head(s))
         THEN (IF inRun THEN <<>> ELSE <<" ">>) \o CollapseWhitespace(Tail(s), TRUE)
         ELSE <<Head(s)>> \o CollapseWhitespace(Tail(s), FALSE)

\* re.sub(r'[\x00-\x08\x0b-\x0c\x0e-\x1f\x7f-\x9f]', '', text)
RemoveControl(s) == SelectSeq(s, LAMBDA c : ~IsControl(c))

\* clean_text: collapse whitespace, then remove control characters, then strip
clean_text(s) == Strip(RemoveControl(CollapseWhitespace(s, FALSE)))

(***************************************************************************)
(* Input texts of the two pure-function specifications.                    *)
(***************************************************************************)
\* every text over the alphabet of at most n characters
TextsUpTo(alphabet, n) == UNION {[1..k -> alphabet] : k \in 0..n}

CleanAlphabet == {"a", " ", NL, NUL, US}
SplitAlphabet == {"a", "b", " ", NL}


\* C9: clean_text is idempotent: cleaning an already cleaned text changes
\* nothing (at "twice", text holds clean_text(x) and out clean_text(clean_text(x)))
C9_CleanTextIdempotent == pc = "twice" => out = text

(***************************************************************************)
(* SpecClean: clean_text applied to a text, then to its own result.        *)
(***************************************************************************)
CleanInit ==
    /\ IdleIndex /\ IdleAgent
    /\ IdleParser /\ IdleRag /\ IdleScripts /\ IdleEmbedder /\ IdleGenerator
    /\ text \in TextsUpTo(CleanAlphabet, MaxTextLen)
    /\ out = <<>>
    /\ pc = "in"

CleanOnce ==
    /\ pc = "in"
    /\ out' = clean_text(text)
    /\ pc' = "once"
    /\ UNCHANGED <<client, last, gen, text, parsed, rag, scripts, embedder, generated>>

CleanTwice ==
    /\ pc = "once"
    /\ text' = out
    /\ out' = clean_text(out)
    /\ pc' = "twice"
    /\ UNCHANGED <<client, last, gen, parsed, rag, scripts, embedder, generated>>

CleanNext == CleanOnce \/ CleanTwice

SpecClean == CleanInit /\ [][CleanNext]_vars

(***************************************************************************)
(* SpecSplit: the splitter applied to a document text.                     *)
(***************************************************************************)
SplitInit ==
    /\ IdleIndex /\ IdleAgent
    /\ IdleParser /\ IdleRag /\ IdleScripts /\ IdleEmbedder /\ IdleGenerator
    /\ text \in TextsUpTo(SplitAlphabet, MaxTextLen)
    /\ out = <<>>
    /\ pc = "in"

Split ==
    /\ pc = "in"
    /\ out' = SplitFrom(text, 1)
    /\ pc' = "done"
    /\ UNCHANGED <<client, last, gen, text, parsed, rag, scripts, embedder, generated>>

SplitNext == Split

SpecSplit == SplitInit /\ [][SplitNext]_vars

\* a suffix of a of length n is a prefix of b
SharesOverlap(a, b, n) ==
    /\ Len(a) >= n /\ Len(b) >= n
    /\ SubSeq(a, Len(a) - n + 1, Len(a)) = SubSeq(b, 1, n)

MaxFiles == 2

\* str.lower on the letters that occur in the model's file names and test ids
Lower(c) ==
    CASE c = "M" -> "m" [] c = "D" -> "d" [] c = "E" -> "e" [] c = "X" -> "x"
      [] c = "T" -> "t" [] c = "C" -> "c"
      [] OTHER -> c

\* the index of the last dot of name, 0 if there is none (str.rfind, 1-based)
LastDot(name) ==
    IF \E i \in 1..Len(name) : name[i] = "."
    THEN CHOOSE i \in 1..Len(name) :
             name[i] = "." /\ \A j \in (i + 1)..Len(name) : name[j] # "."
    ELSE 0

\* PurePath.suffix: from the last dot on, unless the name starts or ends there
Suffix(name) ==
    IF LastDot(name) > 1 /\ LastDot(name) < Len(name)
    THEN SubSeq(name, LastDot(name), Len(name))
    ELSE <<>>

\* str.lstrip('.')
RECURSIVE LStripDots(_)
LStripDots(s) ==
    IF s # <<>> /\ Head(s) = "." THEN LStripDots(Tail(s)) ELSE s

\* Path(filename).suffix.lstrip('.').lower()
get_file_extension(filename) ==
    [i \in 1..Len(LStripDots(Suffix(filename))) |-> Lower(LStripDots(Suffix(filename))[i])]

\* the keys of self.parsers
Parsers ==
    {<<"m", "d">>, <<"t", "x", "t">>, <<"j", "s", "o", "n">>,
     <<"h", "t", "m", "l">>, <<"h", "t", "m">>, <<"p", "d", "f">>}

FileNames ==
    {<<"a", ".", "m", "d">>, <<"a", ".", "M", "D">>, <<"a", ".", "t", "x", "t">>,
     <<"a", ".", "j", "s", "o", "n">>, <<"a", ".", "h", "t", "m", "l">>,
     <<"a", ".", "h", "t", "m">>, <<"a", ".", "p", "d", "f">>,
     <<"a", ".", "e", "x", "e">>, <<"a", ".", "E", "X", "E">>,
     <<"a">>, <<".", "m", "d">>}

\* what a file holds: two spaces and a control character, a number, nothing
FileTexts == {<<"a", " ", NUL, " ", "b">>, <<"7">>, <<>>}

\* a path: the file may be absent, or unreadable in its format
Files ==
    {[name |-> n, present |-> p, readable |-> r, text |-> t] :
        n \in FileNames, p \in BOOLEAN, r \in BOOLEAN, t \in FileTexts}

\* the paths of the model: an absent file has no content
Paths == {f \in Files : f.present \/ (~f.readable /\ f.text = <<>>)}

\* _parse_markdown, _parse_text: read and clean
parse_text(t) == clean_text(t)

\* _parse_json on a document that is a bare number: json.load, then
\* _json_to_text gives the one line of its digits; any other text of the
\* model is not JSON
IsNumber(t) == t # <<>> /\ \A i \in 1..Len(t) : t[i] \in {"0", "7"}
parse_json(t) == t

\* _parse_html on a document without tags: no title, no form; the visible
\* text is the stripped text, after the heading, joined by the two
\* characters backslash and n
parse_html(t) == clean_text(<<"\\n--- Page Content ---", "\\n">> \o Strip(t))

\* _parse_pdf on a document of one page: the page is kept if its text is not
\* blank
parse_pdf(t) ==
    IF Strip(t) = <<>> THEN clean_text(<<>>)
    ELSE clean_text(<<"--- Page 1 ---", "\\n">> \o t)

\* whether the format's parser raises on the file
ParserRaises(extension, file) ==
    \/ ~file.readable
    \/ extension = <<"j", "s", "o", "n">> /\ ~IsNumber(file.text)

\* parser_func(file_path)
ParserContent(extension, t) ==
    CASE extension = <<"j", "s", "o", "n">> -> parse_json(t)
      [] extension \in {<<"h", "t", "m", "l">>, <<"h", "t", "m">>} -> parse_html(t)
      [] extension = <<"p", "d", "f">> -> parse_pdf(t)
      [] OTHER -> parse_text(t)

\* DocumentMetadata(filename, file_type, size_bytes).dict()
DocumentMetadata(filename, file_type, size_bytes) ==
    [filename |-> filename, file_type |-> file_type, size_bytes |-> size_bytes]

ParseFailure(error) ==
    [success |-> FALSE, error |-> Some(error), content |-> None, metadata |-> None]

\* the body of the try block of parse_file: what it returns or raises, and
\* whether it touched the file (stat or open)
ParseFileBody(file) ==
    LET extension == get_file_extension(file.name) IN
    IF extension \notin Parsers
    THEN [raised |-> FALSE, touched |-> FALSE,
          result |-> ParseFailure(<<"Unsupported file type: .", extension>>)]
    ELSE IF ~file.present
    THEN [raised |-> TRUE, touched |-> TRUE, error |-> <<"No such file or directory">>]
    ELSE IF ParserRaises(extension, file)
    THEN [raised |-> TRUE, touched |-> TRUE, error |-> <<"cannot parse">>]
    ELSE [raised |-> FALSE, touched |-> TRUE,
          result |-> [success |-> TRUE,
                      content |-> Some(ParserContent(extension, file.text)),
                      metadata |-> Some(DocumentMetadata(file.name, extension, Len(file.text))),
                      error |-> None]]

\* a parse_file without its except clause
ParseHandler_Absent(r) ==
    IF r.raised THEN [outcome |-> "raised", touched |-> r.touched]
    ELSE [outcome |-> "returned", touched |-> r.touched, result |-> r.result]

\* parse_file: except Exception as e returns the failure with str(e)
ParseHandler(r) ==
    IF r.raised
    THEN [outcome |-> "returned", touched |-> r.touched, result |-> ParseFailure(r.error)]
    ELSE [outcome |-> "returned", touched |-> r.touched, result |-> r.result]

parse_file(file) == ParseHandler(ParseFileBody(file))

\* a loop that stops at the first file that fails
RECURSIVE ParseLoop_StopAtFailure(_, _, _)
ParseLoop_StopAtFailure(file_paths, i, acc) ==
    IF i > Len(file_paths) THEN acc
    ELSE LET r == parse_file(file_paths[i]) IN
         IF r.outcome = "raised" THEN [acc EXCEPT !.outcome = "raised"]
         ELSE IF ~r.result.success
         THEN [acc EXCEPT !.documents = Append(@, r.result), !.failed = @ + 1]
         ELSE ParseLoop_StopAtFailure(file_paths, i + 1,
                  [acc EXCEPT !.documents = Append(@, r.result),
                              !.successful = @ + 1])

\* parse_multiple_files: the loop over file_paths from the i-th on
RECURSIVE ParseLoop(_, _, _)
ParseLoop(file_paths, i, acc) ==
    IF i > Len(file_paths) THEN acc
    ELSE LET r == parse_file(file_paths[i]) IN
         IF r.outcome = "raised" THEN [acc EXCEPT !.outcome = "raised"]
         ELSE ParseLoop(file_paths, i + 1,
                  [acc EXCEPT !.documents = Append(@, r.result),
                              !.successful = IF r.result.success THEN @ + 1 ELSE @,
                              !.failed = IF r.result.success THEN @ ELSE @ + 1])

parse_multiple_files(file_paths) ==
    LET acc == ParseLoop(file_paths, 1,
                   [outcome |-> "returned", documents |-> <<>>,
                    successful |-> 0, failed |-> 0])
    IN  [outcome |-> acc.outcome,
         result |-> [documents |-> acc.documents, total |-> Len(file_paths),
                     successful |-> acc.successful, failed |-> acc.failed]]

\* the paths that occur in batches: four file types, each file absent,
\* unreadable or holding a number
BatchPaths ==
    {f \in Paths :
        /\ f.name \in {<<"a", ".", "m", "d">>, <<"a", ".", "j", "s", "o", "n">>,
                       <<"a", ".", "p", "d", "f">>, <<"a", ".", "e", "x", "e">>}
        /\ f.present => f.text = <<"7">>}

PathLists == UNION {[1..n -> BatchPaths] : n \in 0..MaxFiles}

(***************************************************************************)
(* SpecParser: the document parser under parse_file and                    *)
(* parse_multiple_files.                                                   *)
(***************************************************************************)
ParserInit ==
    /\ parsed = NoCall
    /\ IdleIndex /\ IdleAgent /\ IdleText
    /\ IdleRag /\ IdleScripts /\ IdleEmbedder /\ IdleGenerator

ParseFile ==
    \E file \in Paths :
        /\ parsed = NoCall
        /\ parsed' = [op |-> "parse_file", file |-> file, call |-> parse_file(file)]
        /\ UNCHANGED <<client, last, gen, text, out, pc, rag, scripts, embedder, generated>>

ParseMultipleFiles ==
    \E file_paths \in PathLists :
        /\ parsed = NoCall
        /\ parsed' = [op |-> "parse_multiple_files", file_paths |-> file_paths,
                      call |-> parse_multiple_files(file_paths)]
        /\ UNCHANGED <<client, last, gen, text, out, pc, rag, scripts, embedder, generated>>

ParserNext == ParseFile \/ ParseMultipleFiles

SpecParser == ParserInit /\ [][ParserNext]_vars

\* C11: parse_file returns, never raises; an unsupported extension gives a
\* failure naming the extension, with no content and no metadata, and the
\* file is not touched; a missing file or a fault of the format's parser
\* gives a failure with an error, no content and no metadata
C11_ParseFileNeverRaises ==
    parsed.op = "parse_file" =>
        /\ parsed.call.outcome = "returned"
        /\ get_file_extension(parsed.file.name) \notin Parsers =>
               /\ parsed.call.result =
                      [success |-> FALSE, content |-> None, metadata |-> None,
                       error |-> Some(<<"Unsupported file type: .",
                                        get_file_extension(parsed.file.name)>>)]
               /\ ~parsed.call.touched
        /\ (\/ ~parsed.file.present
            \/ ParserRaises(get_file_extension(parsed.file.name), parsed.file)) =>
               /\ ~parsed.call.result.success
               /\ parsed.call.result.error # None
               /\ parsed.call.result.content = None
               /\ parsed.call.result.metadata = None

\* parse_file was called on a file of a supported type that its parser could
\* not read, and returned a failure
C11_Witness ==
    /\ parsed.op = "parse_file"
    /\ parsed.file.name = <<"a", ".", "p", "d", "f">>
    /\ parsed.file.present /\ ~parsed.file.readable
    /\ parsed.call.outcome = "returned" /\ ~parsed.call.result.success

\* C12: parse_multiple_files returns one result per path, in input order,
\* each the result parse_file gives for that path, with total the number of
\* paths and successful + failed = total
C12_OneResultPerFile ==
    parsed.op = "parse_multiple_files" =>
        /\ parsed.call.outcome = "returned"
        /\ Len(parsed.call.result.documents) = Len(parsed.file_paths)
        /\ \A i \in 1..Len(parsed.file_paths) :
               parsed.call.result.documents[i] = parse_file(parsed.file_paths[i]).result
        /\ parsed.call.result.total = Len(parsed.file_paths)
        /\ parsed.call.result.successful + parsed.call.result.failed
               = parsed.call.result.total
        /\ parsed.call.result.successful =
               Cardinality({i \in 1..Len(parsed.file_paths) :
                                parsed.call.result.documents[i].success})

\* a batch whose first file failed and whose second file was parsed
C12_Witness ==
    /\ parsed.op = "parse_multiple_files"
    /\ Len(parsed.file_paths) = 2
    /\ ~parsed.call.result.documents[1].success
    /\ parsed.call.result.documents[2].success
    /\ parsed.call.result.successful = 1 /\ parsed.call.result.failed = 1

\* C16: when the completion call fails, rag_query raises the error
\* generate_response raised, whose message carries the provider's message;
\* the provider was called once and retrieval ran once
C16_CompletionFailureRaisedOnce ==
    (rag.op = "rag_query" /\ ~rag.retrieval.raised /\ ~rag.provider[1].ok) =>
        /\ rag.call.outcome = "raised"
        /\ rag.call.error = <<"LLM generation failed: ", rag.provider[1].message>>
        /\ Len(rag.call.sent) = 1
        /\ Cardinality({i \in 1..Len(rag.call.steps) : rag.call.steps[i] = "retrieve"}) = 1
        /\ Cardinality({i \in 1..Len(rag.call.steps) : rag.call.steps[i] = "generate"}) = 1

\* the provider failed the call, and would have answered a second one
C16_Witness ==
    /\ rag.op = "rag_query" /\ ~rag.retrieval.raised
    /\ ~rag.provider[1].ok /\ rag.provider[2].ok
    /\ rag.retrieval.chunks # <<>>
    /\ rag.call.outcome = "raised"

(***************************************************************************)
(* ScriptGenerator.  A script is a sequence of lines, each line one of the *)
(* strings below.  The language model client and the knowledge base are    *)
(* outside the repository: the client is absent, not configured or         *)
(* configured; the model raises or replies; the knowledge base query       *)
(* raises or returns.                                                      *)
(***************************************************************************)
FencePython == "fence python"
FencePlain == "fence"
Blank == ""

ImportLine == "from selenium import webdriver"
ClassLine == "class TestCheckout:"
SetupLine == "    def setup(self):"
TeardownLine == "    def teardown(self):"
TestLine == "    def test_main(self):"
MainLine == "if __name__ == \"__main__\":"
MainLineSingleQuotes == "if __name__ == '__main__':"
BrokenLine == "x = ("
NullByteLine == "x = 1 \\x00"

\* the required components a line contains, lower-cased
ComponentsOf(line) ==
    CASE line = ImportLine -> {"import", "selenium", "webdriver"}
      [] line = ClassLine -> {"class test"}
      [] line = SetupLine -> {"def setup"}
      [] line = TeardownLine -> {"def teardown"}
      [] line = TestLine -> {"def test_"}
      [] line = MainLine -> {"if __name__ == \"__main__\""}
      [] OTHER -> {}

\* required_components, each as component.lower()
RequiredComponents ==
    {"import", "selenium", "webdriver", "class test", "def setup", "def teardown",
     "def test_", "if __name__ == \"__main__\""}

\* compile(script_content, '<string>', 'exec'): a fence mark or an open
\* bracket is a syntax error; a null byte makes compile raise ValueError
Compile(script_content) ==
    IF \E i \in 1..Len(script_content) : script_content[i] = NullByteLine
    THEN "ValueError"
    ELSE IF \E i \in 1..Len(script_content) :
                script_content[i] \in {FencePython, FencePlain, BrokenLine}
    THEN "SyntaxError"
    ELSE "ok"

HasComponents(script_content) ==
    \A c \in RequiredComponents :
        \E i \in 1..Len(script_content) : c \in ComponentsOf(script_content[i])

\* str.strip() on a text of lines: blank lines at either end go
RECURSIVE StripBlankLines(_)
StripBlankLines(lines) ==
    IF lines = <<>> THEN <<>>
    ELSE IF Head(lines) = Blank THEN StripBlankLines(Tail(lines))
    ELSE IF lines[Len(lines)] = Blank THEN StripBlankLines(SubSeq(lines, 1, Len(lines) - 1))
    ELSE lines

\* _clean_ai_response: if the text starts with a fence, drop the first line,
\* and the last line if it is a closing fence; then strip
clean_ai_response(script_content) ==
    LET rest == Tail(script_content) IN
    IF script_content # <<>> /\ Head(script_content) \in {FencePython, FencePlain}
    THEN IF rest # <<>> /\ rest[Len(rest)] = FencePlain
         THEN StripBlankLines(SubSeq(rest, 1, Len(rest) - 1))
         ELSE StripBlankLines(rest)
    ELSE StripBlankLines(script_content)

\* a validation that leaves out the compile
validate_generated_script_NoCompile(script_content) ==
    [raised |-> FALSE, valid |-> HasComponents(script_content)]

\* _validate_generated_script: every required component, then compile, whose
\* SyntaxError is caught and whose other exceptions are not
validate_generated_script(script_content) ==
    IF ~HasComponents(script_content) THEN [raised |-> FALSE, valid |-> FALSE]
    ELSE IF Compile(script_content) = "ValueError" THEN [raised |-> TRUE, valid |-> FALSE]
    ELSE [raised |-> FALSE, valid |-> Compile(script_content) = "ok"]

\* _generate_ai_script: the script, or None; generate_content may raise, and
\* its reply may have no text
generate_ai_script(llm_client, model) ==
    IF llm_client # "configured" THEN None
    ELSE IF model.raised THEN None
    ELSE LET script_content == clean_ai_response(model.text)
             checked == validate_generated_script(script_content)
         IN IF checked.raised \/ ~checked.valid THEN None ELSE Some(script_content)

\* the keywords a word of the feature text contains, lower-cased
KeywordsOf(word) ==
    CASE word \in {"Discount", "discounts"} -> {"discount"}
      [] word = "Cart" -> {"cart"}
      [] word = "shopping" -> {"shopping"}
      [] word \in {"Form", "Information"} -> {"form"}
      [] word = "validation" -> {"validation"}
      [] word = "Payment" -> {"payment"}
      [] OTHER -> {}

\* keyword in feature, feature being test_case['feature'].lower()
InFeature(keyword, feature) ==
    \E i \in 1..Len(feature) : keyword \in KeywordsOf(feature[i])

\* _generate_script_template: header, setup, the test body chosen by the
\* feature, teardown
generate_script_template(test_case) ==
    <<"header", test_case.test_id, "setup_code",
      IF InFeature("discount", test_case.feature) THEN "discount_test"
      ELSE IF InFeature("cart", test_case.feature) \/ InFeature("shopping", test_case.feature)
      THEN "cart_test"
      ELSE IF InFeature("form", test_case.feature) \/ InFeature("validation", test_case.feature)
      THEN "form_test"
      ELSE IF InFeature("payment", test_case.feature) THEN "payment_test"
      ELSE "generic_test",
      "teardown_code">>

\* generate_selenium_script: the strategies run, and the script returned or
\* the exception raised
generate_selenium_script(test_case, llm_client, model, context_raises) ==
    IF context_raises
    THEN [outcome |-> "raised", ran |-> <<>>, strategy |-> "none", script |-> <<>>]
    ELSE IF llm_client = "configured"
    THEN LET script == generate_ai_script(llm_client, model) IN
         IF script # None /\ script[1] # <<>>
         THEN [outcome |-> "returned", ran |-> <<"model">>, strategy |-> "model",
               script |-> script[1]]
         ELSE [outcome |-> "returned", ran |-> <<"model", "template">>,
               strategy |-> "template", script |-> generate_script_template(test_case)]
    ELSE [outcome |-> "returned", ran |-> <<"template">>, strategy |-> "template",
          script |-> generate_script_template(test_case)]

\* a script with every required component that compiles
ValidScript == <<ImportLine, ClassLine, SetupLine, TeardownLine, TestLine, MainLine>>

\* ValidScript without its i-th line
Without(i) == SubSeq(ValidScript, 1, i - 1) \o SubSeq(ValidScript, i + 1, Len(ValidScript))

\* the texts the model replies with; the empty text also stands for no text
ModelTexts ==
    {ValidScript,
     <<Blank>> \o ValidScript \o <<Blank>>,
     <<FencePython>> \o ValidScript \o <<FencePlain>>,
     <<FencePlain>> \o ValidScript \o <<FencePlain>>,
     <<FencePython>> \o ValidScript \o <<FencePlain, Blank>>,
     <<Blank, FencePython>> \o ValidScript \o <<FencePlain>>,
     SubSeq(ValidScript, 1, 5) \o <<MainLineSingleQuotes>>,
     ValidScript \o <<BrokenLine>>,
     ValidScript \o <<NullByteLine>>,
     <<>>}
    \cup {Without(i) : i \in 1..Len(ValidScript)}

ModelOutcomes ==
    {[raised |-> TRUE, text |-> <<>>]}
    \cup {[raised |-> FALSE, text |-> t] : t \in ModelTexts}

Features ==
    {<<"Discount", "code">>, <<"shopping", "list">>, <<"Cart", "discounts">>,
     <<"Form", "validation">>, <<"Payment", "Form">>, <<"Payment">>, <<"login">>,
     <<"Information">>}

\* the test_scenario texts of the model
Scenarios == {<<"Apply", "Discount", "code">>, <<"open", "page">>}

GeneratorTestCases ==
    {[test_id |-> "TC-001", feature |-> f, test_scenario |-> sc] :
        f \in Features, sc \in Scenarios}

(***************************************************************************)
(* SpecGenerator: one generate_selenium_script call per run.               *)
(***************************************************************************)
GeneratorInit ==
    /\ generated = NoCall
    /\ IdleIndex /\ IdleAgent /\ IdleText
    /\ IdleParser /\ IdleRag /\ IdleScripts /\ IdleEmbedder

GenerateSeleniumScript ==
    /\ generated = NoCall
    /\ \E test_case \in GeneratorTestCases,
          llm_client \in {"none", "unconfigured", "configured"},
          model \in ModelOutcomes, context_raises \in BOOLEAN :
          generated' = [op |-> "generate_selenium_script", test_case |-> test_case,
                        llm_client |-> llm_client, model |-> model,
                        call |-> generate_selenium_script(test_case, llm_client, model,
                                                          context_raises)]
    /\ UNCHANGED <<client, last, gen, text, out, pc, parsed, rag, scripts, embedder>>

GeneratorNext == GenerateSeleniumScript

SpecGenerator == GeneratorInit /\ [][GeneratorNext]_vars

\* C17: the script returned is the model's cleaned output exactly when the
\* client is configured, the model replied, and the cleaned reply has every
\* required component and compiles; then only the model strategy ran.  In
\* every other case it is the template script, the model strategy having run
\* first if the client is configured
C17_ModelThenTemplate ==
    (generated.op = "generate_selenium_script" /\ generated.call.outcome = "returned") =>
        LET accepted ==
                /\ generated.llm_client = "configured"
                /\ ~generated.model.raised
                /\ HasComponents(clean_ai_response(generated.model.text))
                /\ Compile(clean_ai_response(generated.model.text)) = "ok"
        IN /\ accepted =>
               /\ generated.call.script = clean_ai_response(generated.model.text)
               /\ generated.call.ran = <<"model">>
           /\ ~accepted =>
               /\ generated.call.script = generate_script_template(generated.test_case)
               /\ generated.call.ran =
                      IF generated.llm_client = "configured"
                      THEN <<"model", "template">> ELSE <<"template">>

\* the model's reply had every required component and did not compile, and
\* the template script was returned
C17_Witness ==
    /\ generated.op = "generate_selenium_script"
    /\ generated.llm_client = "configured"
    /\ generated.model.text = ValidScript \o <<BrokenLine>>
    /\ generated.call.outcome = "returned"
    /\ generated.call.strategy = "template"

(***************************************************************************)
(* ScriptGenerationAgent.  A reply and a script are sequences of lines, a  *)
(* test id a sequence of characters.  The output directory is the set of   *)
(* its files, each a name and a content.                                   *)
(***************************************************************************)
MaxCalls == 2

\* test_id.replace('-', '_').lower(), between "test_" and ".py"
generate_script_filename(test_id) ==
    <<"test_">>
        \o [i \in 1..Len(test_id) |-> IF test_id[i] = "-" THEN "_" ELSE Lower(test_id[i])]
        \o <<".py">>

ProseLine == "Here is the script:"
CommentLine == "# checkout test"
ImportTimeLine == "import time"
CodeLine == "driver.get(url)"
ImportantLine == "important = 1"

IsFenceLine(line) == line \in {FencePython, FencePlain}

\* extract_code_from_markdown: the lines between the first fence line and the
\* next one, stripped; the whole text, stripped, if there are not two
extract_code_from_markdown(lines) ==
    LET fences == {i \in 1..Len(lines) : IsFenceLine(lines[i])}
        first == CHOOSE i \in fences : \A j \in fences : i <= j
        next == CHOOSE i \in fences \ {first} : \A j \in fences \ {first} : i <= j
    IN IF Cardinality(fences) >= 2
       THEN StripBlankLines(SubSeq(lines, first + 1, next - 1))
       ELSE StripBlankLines(lines)

\* script.startswith("from") or script.startswith("import")
StartsWithImport(script) ==
    script # <<>> /\ Head(script) \in {ImportLine, ImportTimeLine, ImportantLine}

\* the imports _clean_script puts in front, ending in a blank line
Preamble == <<"from selenium import webdriver ... import os", Blank>>

\* re.sub(r"```python|```", "", script), then strip()
Unfenced(script) ==
    StripBlankLines(
        [i \in 1..Len(script) |-> IF IsFenceLine(script[i]) THEN Blank ELSE script[i]])

\* _clean_script: fence marks removed, stripped, the imports put in front
\* unless the script starts with from or import
clean_script(script) ==
    LET unfenced == Unfenced(script)
    IN IF StartsWithImport(unfenced) THEN unfenced ELSE Preamble \o unfenced

\* the file written anew: a file of that name is replaced
WriteFile(files, name, content) ==
    {f \in files : f.name # name} \cup {[name |-> name, content |-> content]}

\* how far a failing write gets: the number of lines on disk, short of all
Cuts == 0..2

Min(a, b) == IF a <= b THEN a ELSE b

\* _save_script: open(output_path, "w") fails and nothing changes; or the
\* file is opened, so emptied, and the write puts the whole content there,
\* or fails with a part of the content on disk
save_script(files, script, fault, cut) ==
    IF fault = "open" THEN [raised |-> TRUE, save |-> "open", files |-> files]
    ELSE IF fault = "write"
    THEN [raised |-> TRUE, save |-> "write",
          files |-> WriteFile(files, script.filename,
                      SubSeq(script.script_content, 1,
                             Min(cut, Len(script.script_content) - 1)))]
    ELSE [raised |-> FALSE, save |-> "ok",
          files |-> WriteFile(files, script.filename, script.script_content)]

\* SeleniumScript of backend.models, with the fields generate_script passes
SeleniumScript(test_id, script_content, filename, grounded_in) ==
    [test_id |-> test_id, script_content |-> script_content,
     filename |-> filename, grounded_in |-> grounded_in]

\* ScriptGenerationResponse of backend.models
ScriptGenerationResponse(success, script) ==
    [success |-> success, script |-> script]

\* where a call of generate_script can fail
ScriptFaults ==
    {"none", "markup", "retrieval", "completion", "construct", "open", "write"}

\* whether a call gets as far as rag_service.retrieve_context: markup
\* analysis went through and the test case has a grounded_in
Queries(test_case, env) ==
    env.fault # "markup" /\ test_case.grounded_in # None

\* the try block of generate_script: markup analysis, retrieval for a
\* grounded test case, the completion, the script built from the reply, the
\* file written
generate_script_body(files, test_case, env) ==
    LET script_content == clean_script(extract_code_from_markdown(env.reply))
        filename == generate_script_filename(test_case.test_id)
        script == SeleniumScript(test_case.test_id, script_content, filename,
                                 test_case.grounded_in)
        saved == save_script(files, script, env.fault, env.cut)
        stopped == [raised |-> TRUE, save |-> "none", files |-> files, script |-> None]
    IN IF env.fault = "markup" THEN stopped
       ELSE IF env.fault = "retrieval" /\ Queries(test_case, env) THEN stopped
       ELSE IF env.fault = "completion" THEN stopped
       ELSE IF env.fault = "construct" THEN stopped
       ELSE [raised |-> saved.raised, save |-> saved.save, files |-> saved.files,
             script |-> Some(script)]

\* generate_script without its except clause
ScriptHandler_Absent(r) ==
    IF r.raised
    THEN [outcome |-> "raised", response |-> None, files |-> r.files,
          save |-> r.save, script |-> r.script]
    ELSE [outcome |-> "returned",
          response |-> Some(ScriptGenerationResponse(TRUE, r.script)),
          files |-> r.files, save |-> r.save, script |-> r.script]

\* the except clause of generate_script: a failure response without script
ScriptHandler(r) ==
    [outcome |-> "returned",
     response |-> Some(IF r.raised THEN ScriptGenerationResponse(FALSE, None)
                       ELSE ScriptGenerationResponse(TRUE, r.script)),
     files |-> r.files, save |-> r.save, script |-> r.script]

generate_script(files, test_case, env) ==
    ScriptHandler(generate_script_body(files, test_case, env))

\* what one call of generate_script leaves in the history of the directory
CallRecord(test_case, r) ==
    [test_id |-> test_case.test_id,
     filename |-> generate_script_filename(test_case.test_id),
     script |-> r.script, save |-> r.save,
     success |-> r.response # None /\ r.response[1].success]

RECURSIVE ScriptLoop(_, _, _, _, _)
\* the loop of generate_multiple_scripts from test case i on
ScriptLoop(files, attempts, i, responses, calls) ==
    IF i > Len(attempts)
    THEN [outcome |-> "returned", responses |-> responses, files |-> files,
          calls |-> calls]
    ELSE LET r == generate_script(files, attempts[i].test_case, attempts[i].env)
             called == Append(calls, CallRecord(attempts[i].test_case, r))
         IN IF r.outcome = "raised"
            THEN [outcome |-> "raised", responses |-> responses,
                  files |-> r.files, calls |-> called]
            ELSE ScriptLoop(r.files, attempts, i + 1,
                            Append(responses, r.response[1]), called)

generate_multiple_scripts(files, attempts) ==
    ScriptLoop(files, attempts, 1, <<>>, <<>>)

ScriptReplies ==
    { <<FencePython, ImportLine, CodeLine, FencePlain>>,
      <<ProseLine, FencePlain, CodeLine, FencePlain>>,
      <<CommentLine, ImportTimeLine, CodeLine>>,
      <<ImportantLine, CodeLine>> }

ScriptTestCases ==
    { [test_id |-> <<"T", "C", "-", "0", "0", "1">>, grounded_in |-> Some("a.md")],
      [test_id |-> <<"t", "c", "_", "0", "0", "1">>, grounded_in |-> None],
      [test_id |-> <<"T", "C", "-", "0", "0", "2">>, grounded_in |-> None] }

FirstReply == <<FencePython, ImportLine, CodeLine, FencePlain>>

\* the surroundings of one call: the reply of the model, the step that
\* fails, and how far a failing write gets
ScriptEnvs ==
    { env \in [reply : ScriptReplies, fault : ScriptFaults, cut : Cuts] :
        /\ env.fault # "write" => env.cut = 0
        /\ env.fault \notin {"none", "write"} => env.reply = FirstReply }

Attempts == [test_case : ScriptTestCases, env : ScriptEnvs]

\* the attempts the batches of the model are made of
BatchAttempts ==
    { a \in Attempts : a.env.reply = FirstReply /\ a.env.cut = 0
                       /\ a.env.fault \in {"none", "completion", "write"} }

AttemptLists(n) ==
    UNION { [1..k -> BatchAttempts] : k \in 0..n }

ScriptsInit ==
    /\ scripts = [files |-> {}, history |-> <<>>,
                  last |-> [op |-> "none", attempts |-> <<>>,
                            outcome |-> "returned", responses |-> <<>>]]
    /\ IdleIndex /\ IdleAgent /\ IdleText /\ IdleParser /\ IdleRag
    /\ IdleEmbedder /\ IdleGenerator

GenerateScript ==
    /\ scripts # NoCall
    /\ Len(scripts.history) < MaxCalls
    /\ \E a \in Attempts :
         \E r \in {generate_script(scripts.files, a.test_case, a.env)} :
            /\ scripts' = [files |-> r.files,
                        history |-> Append(scripts.history, CallRecord(a.test_case, r)),
                        last |-> [op |-> "generate_script", attempts |-> <<a>>,
                                  outcome |-> r.outcome,
                                  responses |-> r.response]]
            /\ client' = IF Queries(a.test_case, a.env) THEN AfterQuery(client) ELSE client
    /\ UNCHANGED <<last, gen, text, out, pc, parsed, rag, embedder, generated>>

GenerateMultipleScripts ==
    /\ scripts # NoCall
    /\ Len(scripts.history) < MaxCalls
    /\ \E attempts \in AttemptLists(MaxCalls - Len(scripts.history)) :
         \E r \in {generate_multiple_scripts(scripts.files, attempts)} :
            /\ scripts' = [files |-> r.files,
                        history |-> scripts.history \o r.calls,
                        last |-> [op |-> "generate_multiple_scripts",
                                  attempts |-> attempts,
                                  outcome |-> r.outcome,
                                  responses |-> r.responses]]
            /\ client' = IF \E i \in 1..Len(r.calls) :
                                 Queries(attempts[i].test_case, attempts[i].env)
                          THEN AfterQuery(client) ELSE client
    /\ UNCHANGED <<last, gen, text, out, pc, parsed, rag, embedder, generated>>

ScriptsNext == GenerateScript \/ GenerateMultipleScripts

SpecScripts == ScriptsInit /\ [][ScriptsNext]_vars

\* the calls of the history that opened the file of that name for writing
WritesTo(name) ==
    {i \in 1..Len(scripts.history) :
        scripts.history[i].filename = name /\ scripts.history[i].save \in {"ok", "write"}}

\* the last of them
LastWrite(name) ==
    CHOOSE i \in WritesTo(name) : \A j \in WritesTo(name) : j <= i

IsPrefix(a, b) == Len(a) <= Len(b) /\ a = SubSeq(b, 1, Len(a))

\* What the output location does hold: one file per name that a call opened
\* for writing and no other, named test_<test id, dashes as underscores,
\* lower case>.py, and in it what the most recent call that opened it wrote,
\* whatever its test id: the whole script_content of that call and nothing
\* of an earlier one if the write succeeded, a part of it short of all if
\* the write failed.
OutputHoldsLastWrite ==
    scripts # NoCall =>
        /\ \A f \in scripts.files, g \in scripts.files : f.name = g.name => f = g
        /\ \A i \in 1..Len(scripts.history) :
             /\ scripts.history[i].filename
                    = generate_script_filename(scripts.history[i].test_id)
             /\ scripts.history[i].success <=> scripts.history[i].save = "ok"
             /\ (\E f \in scripts.files : f.name = scripts.history[i].filename)
                    <=> WritesTo(scripts.history[i].filename) # {}
        /\ \A f \in scripts.files :
             /\ WritesTo(f.name) # {}
             /\ LET call == scripts.history[LastWrite(f.name)]
                IN IF call.save = "ok"
                   THEN f.content = call.script[1].script_content
                   ELSE /\ IsPrefix(f.content, call.script[1].script_content)
                        /\ f.content # call.script[1].script_content

\* the successful generations for a test id
SuccessesOf(test_id) ==
    {i \in 1..Len(scripts.history) :
        scripts.history[i].test_id = test_id /\ scripts.history[i].success}

\* C18: after any sequence of generate_script calls, the file named
\* test_<test id, dashes as underscores, lower case>.py holds exactly the
\* script_content of the most recent successful generation for that test id
C18_FileHoldsLastSuccessOfTestId ==
    scripts # NoCall =>
        \A t \in ScriptTestCases :
            SuccessesOf(t.test_id) # {} =>
                LET i == CHOOSE i \in SuccessesOf(t.test_id) :
                            \A j \in SuccessesOf(t.test_id) : j <= i
                IN \E f \in scripts.files :
                      /\ f.name = generate_script_filename(t.test_id)
                      /\ f.content = scripts.history[i].script[1].script_content

\* C19: generate_script returns a response, whatever fails: one with
\* success false and no script if markup analysis, retrieval, the
\* completion, the construction of the script or the file write failed, one
\* with success true and the script otherwise; generate_multiple_scripts
\* returns one response per test case, in the order of the test cases, the
\* ones after a failed test case included.
C19_ScriptCallsReturnResponses ==
    (scripts # NoCall /\ scripts.last.op # "none") =>
        /\ scripts.last.outcome = "returned"
        /\ Len(scripts.last.responses) = Len(scripts.last.attempts)
        /\ \A i \in 1..Len(scripts.last.attempts) :
             LET a == scripts.last.attempts[i]
                 response == scripts.last.responses[i]
                 fails == \/ a.env.fault \in {"markup", "completion", "construct",
                                               "open", "write"}
                          \/ a.env.fault = "retrieval" /\ a.test_case.grounded_in # None
             IN /\ response.success <=> ~fails
                /\ fails => response.script = None
                /\ ~fails => /\ response.script # None
                             /\ response.script[1].test_id = a.test_case.test_id

\* a batch whose first test case failed at the file write and whose second
\* succeeded
C19_Witness ==
    /\ scripts # NoCall
    /\ scripts.last.op = "generate_multiple_scripts"
    /\ Len(scripts.last.attempts) = 2
    /\ scripts.last.attempts[1].env.fault = "write"
    /\ Len(scripts.last.responses) = 2
    /\ ~scripts.last.responses[1].success
    /\ scripts.last.responses[2].success

(***************************************************************************)
(* EmbeddingService.  Callers are threads; a call of embed_text,           *)
(* embed_batch or get_embedding_dimension reads the model property, whose  *)
(* test, construction, assignment and return are separate steps.  The      *)
(* instances constructed are numbered in the order of their construction.  *)
(***************************************************************************)
MaxThreads == 2
MaxEmbedCalls == 2

Threads == 1..MaxThreads

EmbedOps == {"embed_text", "embed_batch", "get_embedding_dimension"}

\* __init__: self._model = None; no caller has begun
EmbedInit ==
    /\ embedder = [model |-> None, constructed |-> 0, uses |-> {},
                   overlap |-> FALSE,
                   threads |-> [t \in Threads |->
                                  [pc |-> "idle", op |-> "none", calls |-> 0, new |-> 0]]]
    /\ IdleIndex /\ IdleAgent /\ IdleText /\ IdleParser /\ IdleRag
    /\ IdleScripts /\ IdleGenerator

EmbedFrame ==
    UNCHANGED <<client, last, gen, text, out, pc, parsed, rag, scripts, generated>>

\* a thread enters embed_text, embed_batch or get_embedding_dimension and
\* reaches self.model
EmbedCall(t) ==
    /\ embedder # NoCall
    /\ embedder.threads[t].pc = "idle"
    /\ embedder.threads[t].calls < MaxEmbedCalls
    /\ \E op \in EmbedOps :
         embedder' = [embedder EXCEPT
            !.threads[t] = [pc |-> "test", op |-> op, calls |-> @.calls + 1, new |-> 0],
            !.overlap = @ \/ \E u \in Threads \ {t} : embedder.threads[u].pc # "idle"]
    /\ EmbedFrame

\* if self._model is None
ModelTest(t) ==
    /\ embedder # NoCall
    /\ embedder.threads[t].pc = "test"
    /\ embedder' = [embedder EXCEPT
          !.threads[t].pc = IF embedder.model = None THEN "construct" ELSE "return"]
    /\ EmbedFrame

\* SentenceTransformer(self.model_name) returns a new instance
ModelConstruct(t) ==
    /\ embedder # NoCall
    /\ embedder.threads[t].pc = "construct"
    /\ embedder' = [embedder EXCEPT
          !.constructed = @ + 1,
          !.threads[t].new = embedder.constructed + 1,
          !.threads[t].pc = "assign"]
    /\ EmbedFrame

\* SentenceTransformer(self.model_name) raises: the call ends, _model as it was
ModelConstructFails(t) ==
    /\ embedder # NoCall
    /\ embedder.threads[t].pc = "construct"
    /\ embedder' = [embedder EXCEPT
          !.threads[t] = [@ EXCEPT !.pc = "idle", !.op = "none"]]
    /\ EmbedFrame

\* self._model = the instance constructed
ModelAssign(t) ==
    /\ embedder # NoCall
    /\ embedder.threads[t].pc = "assign"
    /\ embedder' = [embedder EXCEPT
          !.model = Some(embedder.threads[t].new),
          !.threads[t].pc = "return"]
    /\ EmbedFrame

\* return self._model, and the call runs on the instance returned
ModelReturn(t) ==
    /\ embedder # NoCall
    /\ embedder.threads[t].pc = "return"
    /\ embedder' = [embedder EXCEPT
          !.uses = @ \cup {embedder.model[1]},
          !.threads[t] = [@ EXCEPT !.pc = "idle", !.op = "none"]]
    /\ EmbedFrame

EmbedNext ==
    \E t \in Threads :
        \/ EmbedCall(t)
        \/ ModelTest(t)
        \/ ModelConstruct(t)
        \/ ModelConstructFails(t)
        \/ ModelAssign(t)
        \/ ModelReturn(t)

SpecEmbed == EmbedInit /\ [][EmbedNext]_vars

\* C20: across any interleaving of embed_text, embed_batch and
\* get_embedding_dimension calls the model is constructed at most once and
\* not before the first call, and every call runs on that one instance
C20_ModelConstructedOnce ==
    embedder # NoCall =>
        /\ embedder.constructed <= 1
        /\ (\A t \in Threads : embedder.threads[t].calls = 0) => embedder.constructed = 0
        /\ Cardinality(embedder.uses) <= 1

\* Calls that do not overlap construct the model once, at the first call
\* that gets that far, and all run on that instance.
SequentialCallsConstructOnce ==
    (embedder # NoCall /\ ~embedder.overlap) =>
        /\ embedder.constructed <= 1
        /\ (\A t \in Threads : embedder.threads[t].calls = 0) => embedder.constructed = 0
        /\ Cardinality(embedder.uses) <= 1

(***************************************************************************)
(* SpecFrame: the calls that read the vector index, each made once on an   *)
(* index that holds nothing, one document, or several.                     *)
(***************************************************************************)
FrameInit ==
    /\ client \in AgentClients
    /\ last = NoCall
    /\ gen = NoCall
    /\ rag = NoCall
    /\ scripts = [files |-> {}, history |-> <<>>,
                  last |-> [op |-> "none", attempts |-> <<>>,
                            outcome |-> "returned", responses |-> <<>>]]
    /\ IdleText /\ IdleParser /\ IdleEmbedder /\ IdleGenerator

\* no service has been called yet
FrameIdle == gen = NoCall /\ rag = NoCall /\ scripts.last.op = "none"

\* rag_service.retrieve_context(query, n_results, filter_dict) on its own
RetrieveContext ==
    /\ rag = NoCall /\ gen = NoCall
    /\ \E q \in QueryTexts, n_results \in NResults, filter \in Filters :
          \E retrieval \in Retrievals(Items, q, n_results, filter) :
              rag' = [op |-> "retrieve_context", user_query |-> q,
                      retrieval |-> retrieval]
    /\ client' = AfterQuery(client)
    /\ UNCHANGED <<last, gen, text, out, pc, parsed, scripts, embedder, generated>>

\* rag_service.generate_response(user_query, context, system_prompt) on its
\* own: the index is not consulted
GenerateResponse ==
    /\ rag = NoCall /\ gen = NoCall
    /\ \E user_query \in QueryTexts, provider \in Providers :
          rag' = [op |-> "generate_response", user_query |-> user_query,
                  provider |-> provider,
                  call |-> generate_response(user_query, NoContext, "system", provider)]
    /\ UNCHANGED <<client, last, gen, text, out, pc, parsed, scripts, embedder, generated>>

FrameNext ==
    \/ FrameIdle /\ GenerateTestCases
    \/ FrameIdle /\ RagQuery
    \/ FrameIdle /\ RetrieveContext
    \/ FrameIdle /\ GenerateResponse
    \/ gen = NoCall /\ rag = NoCall /\ GenerateScript

SpecFrame == FrameInit /\ [][FrameNext]_vars

\* C21: rag_query, retrieve_context, generate_response, generate_test_cases
\* and generate_script leave the vector index as it was: the stored chunks
\* with their embeddings and metadata are the same after the call as
\* before, whether the call returned or raised, and nothing of
\* generate_script's input is stored.
C21_IndexUntouched ==
    [][(gen' # gen \/ rag' # rag \/ scripts' # scripts) => client' = client]_vars

\* generate_script has retrieved for a grounded test case and succeeded on an
\* index that holds chunks
C21_Witness ==
    /\ scripts # NoCall
    /\ scripts.last.op = "generate_script"
    /\ scripts.last.attempts[1].test_case.grounded_in # None
    /\ scripts.last.responses[1].success
    /\ client # {} /\ Items # {}

\* the test body the priority discount, cart or shopping, form or
\* validation, payment, generic selects for a text
BodyFor(txt) ==
    IF InFeature("discount", txt) THEN "discount_test"
    ELSE IF InFeature("cart", txt) \/ InFeature("shopping", txt) THEN "cart_test"
    ELSE IF InFeature("form", txt) \/ InFeature("validation", txt) THEN "form_test"
    ELSE IF InFeature("payment", txt) THEN "payment_test"
    ELSE "generic_test"

\* C22: the template strategy emits header and setup, then exactly one test
\* body, then teardown, the body being the one of the first keyword in the
\* priority discount, cart or shopping, form or validation, payment that
\* occurs, whatever its case, in the feature or the scenario of the test
\* case, and the generic one if none does
C22_TemplateByFeatureOrScenario ==
    (generated # NoCall /\ generated.call.strategy = "template") =>
        generated.call.script =
            <<"header", generated.test_case.test_id, "setup_code",
              BodyFor(generated.test_case.feature \o generated.test_case.test_scenario),
              "teardown_code">>

\* What the template strategy does select by: the feature alone.
TemplateByFeature ==
    (generated # NoCall /\ generated.call.strategy = "template") =>
        generated.call.script =
            <<"header", generated.test_case.test_id, "setup_code",
              BodyFor(generated.test_case.feature), "teardown_code">>

\* an import or from statement
IsImportStatement(line) == line \in {ImportLine, ImportTimeLine}

\* the lines of a script from its first line that is neither a comment nor
\* blank
RECURSIVE FromFirstStatement(_)
FromFirstStatement(script) ==
    IF script = <<>> THEN <<>>
    ELSE IF Head(script) \in {CommentLine, Blank} THEN FromFirstStatement(Tail(script))
    ELSE script

\* the script begins with the import preamble
HasPreamble(script_content) ==
    Len(script_content) >= Len(Preamble)
    /\ SubSeq(script_content, 1, Len(Preamble)) = Preamble

\* the reply of the last generate_script call, as extracted and cleaned
LastCleaned ==
    Unfenced(extract_code_from_markdown(scripts.last.attempts[1].env.reply))

\* the file the last generate_script call wrote
LastFile ==
    CHOOSE f \in scripts.files :
        f.name = generate_script_filename(scripts.last.attempts[1].test_case.test_id)

\* C23: the script generate_script persists begins with the import preamble
\* exactly when the first non-comment line of the cleaned reply is not an
\* import or from statement
C23_PreambleIffFirstStatementNotImport ==
    (scripts # NoCall /\ scripts.last.op = "generate_script"
        /\ scripts.last.responses # <<>> /\ scripts.last.responses[1].success) =>
        LET statements == FromFirstStatement(LastCleaned)
        IN HasPreamble(LastFile.content)
              <=> ~(statements # <<>> /\ IsImportStatement(Head(statements)))

\* What decides: the preamble is put in front exactly when the cleaned reply
\* does not begin with the characters from or import.
PreambleIffNotStartsWithImport ==
    (scripts # NoCall /\ scripts.last.op = "generate_script"
        /\ scripts.last.responses # <<>> /\ scripts.last.responses[1].success) =>
        /\ HasPreamble(LastFile.content) <=> ~StartsWithImport(LastCleaned)
        /\ LastFile.content = IF StartsWithImport(LastCleaned) THEN LastCleaned
                              ELSE Preamble \o LastCleaned

\* the source documents of the first three of the retrieved matches
TopSources(retrieved_chunks) ==
    {retrieved_chunks[i].source_document :
        i \in {j \in 1..Len(retrieved_chunks) : j <= 3}} \ {""}

\* the grounded_in values the replies of the model give
GivenGroundedIn == {"a.md"}

\* C24: a grounded_in that generate_test_cases filled in is the sorted,
\* duplicate-free, comma-joined list of the source documents of the first
\* three retrieved matches at most, and names at least one retrieved document
C24_BackfillNamesRetrievedDocuments ==
    (gen.op = "generate" /\ gen.step = "replied") =>
        \A i \in 1..Len(gen.call.response.test_cases) :
            LET grounded_in == gen.call.response.test_cases[i].grounded_in
            IN grounded_in \notin GivenGroundedIn =>
                  /\ TopSources(gen.retrieved_chunks) # {}
                  /\ grounded_in = JoinNames(SortedNames(TopSources(gen.retrieved_chunks)))

\* What is filled in: that list when the first three matches name a
\* document, and the word "documentation" when nothing was retrieved or no
\* match names one.
BackfillOrPlaceholder ==
    (gen.op = "generate" /\ gen.step = "replied") =>
        \A i \in 1..Len(gen.call.response.test_cases) :
            LET grounded_in == gen.call.response.test_cases[i].grounded_in
            IN grounded_in \notin GivenGroundedIn =>
                  grounded_in = IF TopSources(gen.retrieved_chunks) # {}
                                THEN JoinNames(SortedNames(TopSources(gen.retrieved_chunks)))
                                ELSE "documentation"

\* the items the reply of the last call decodes to: the elements of the
\* array, the object alone, none for any other payload
ParsedItems ==
    LET x == extract_json_from_response(gen.reply)
    IN IF x.ok /\ x.data.t = "arr" THEN x.data.items ELSE <<>>

RECURSIVE ValidFrom(_, _, _)
\* the items from number i on that validate after the back-fills, as test
\* cases, in their order
ValidFrom(items, i, retrieved_chunks) ==
    IF i > Len(items) THEN <<>>
    ELSE LET r == ProcessItem(items[i], i - 1, retrieved_chunks)
         IN (IF r.valid THEN <<TestCase(r.tc_data)>> ELSE <<>>)
            \o ValidFrom(items, i + 1, retrieved_chunks)

\* C25: the test cases returned are the parsed items that validate after the
\* back-fills of test_id and grounded_in, in the order of the reply; an
\* invalid item is left out and the others stay; the response is a failure
\* with no test case and total_cases 0 if none is left, and a success with
\* total_cases the number of test cases otherwise
C25_ValidItemsInOrder ==
    (gen.op = "generate" /\ gen.step = "replied") =>
        LET expected == ValidFrom(ParsedItems, 1, gen.retrieved_chunks)
            response == gen.call.response
        IN /\ response.test_cases = expected
           /\ response.success <=> expected # <<>>
           /\ response.total_cases = Len(response.test_cases)
           /\ ~response.success => response.test_cases = <<>> /\ response.total_cases = 0

\* an array of an item without test_steps and a complete one was answered
\* with the complete one alone
C25_Witness ==
    /\ gen.op = "generate" /\ gen.step = "replied"
    /\ gen.reply = Array(<<ItemText("absent", "absent", "no_steps"),
                           ItemText("TC-002", "a.md", "complete")>>)
    /\ gen.call.response.success
    /\ gen.call.response.total_cases = 1
    /\ gen.call.response.test_cases[1].test_id = "TC-002"

\* C28: the test cases of one generate_test_cases response have pairwise
\* distinct test_id values, also when some items of the reply carry a
\* test_id and others receive a generated one
C28_TestIdsDistinct ==
    (gen.op = "generate" /\ gen.step = "replied") =>
        \A i \in 1..Len(gen.call.response.test_cases),
           j \in 1..Len(gen.call.response.test_cases) :
            i # j => gen.call.response.test_cases[i].test_id
                        # gen.call.response.test_cases[j].test_id

\* What holds of the ids: an item that carries a test_id keeps it, and an
\* item without one receives TC-NNN of its position in the reply, counted
\* from 1, whatever ids the other items carry.
TestIdsGivenOrPositional ==
    (gen.op = "generate" /\ gen.step = "replied") =>
        \A i \in 1..Len(ParsedItems) :
            LET r == ProcessItem(ParsedItems[i], i - 1, gen.retrieved_chunks)
            IN r.valid =>
                  Get(r.tc_data, "test_id").s =
                      IF HasKey(ParsedItems[i], "test_id")
                      THEN Get(ParsedItems[i], "test_id").s
                      ELSE generate_test_id(i)

\* C26: the ids one add_documents call generates are pairwise distinct, also
\* when two documents of the batch have the same text at the same chunk
\* index, and a successful call on an empty collection stores as many chunks
\* as the total_chunks it returns
C26_ChunkIdsDistinct ==
    last.op = "add" =>
        /\ \A i \in 1..Len(last.ids), j \in 1..Len(last.ids) :
               i # j => last.ids[i] # last.ids[j]
        /\ (last.outcome = "returned" /\ last.result.success /\ last.before = {}) =>
               Cardinality(Items) = last.result.total_chunks

\* What holds: a call that returns success on an empty collection has stored
\* as many chunks as it reports, because a batch with a repeated id is
\* refused whole.
SuccessStoresTotalChunks ==
    (last.op = "add" /\ last.outcome = "returned" /\ last.result.success
        /\ last.before = {}) =>
        /\ Cardinality(Items) = last.result.total_chunks
        /\ \A i \in 1..Len(last.ids), j \in 1..Len(last.ids) :
               i # j => last.ids[i] # last.ids[j]

\* the source documents that contributed a chunk to the last add_documents
Contributors ==
    {last.documents[i].metadata.filename :
        i \in {j \in 1..Len(last.documents) : AllChunks(<<last.documents[j]>>) # <<>>}}

\* C29: the total_documents of a successful add_documents is the number of
\* distinct source documents that contributed a chunk in that call, and on a
\* collection that was empty it is the total_documents get_stats gives
\* right after
C29_TotalDocumentsCountsContributors ==
    (last.op = "add" /\ last.outcome = "returned" /\ last.result.success) =>
        /\ last.result.total_documents = Cardinality(Contributors)
        /\ last.before = {} =>
               \A stats \in get_stats(client) :
                   last.result.total_documents = stats.total_documents

\* What is returned: the length of the list passed in, documents without
\* content included.
TotalDocumentsIsListLength ==
    (last.op = "add" /\ last.outcome = "returned" /\ last.result.success) =>
        last.result.total_documents = Len(last.documents)

\* the source documents a context attributes its blocks to, in order
RECURSIVE AttributedSources(_)
AttributedSources(context) ==
    IF Len(context) < 2 THEN <<>>
    ELSE IF Head(context) = "=== From "
    THEN <<context[2]>> \o AttributedSources(Tail(context))
    ELSE AttributedSources(Tail(context))

\* C27: rag_query retrieves, formats and generates, in that order and once
\* each; the provider is not called if retrieval raises, and is called once,
\* after retrieval, otherwise; the context it is sent is format_context of
\* the list retrieved, one attributed block per match in the order of
\* retrieval; and the context, retrieved_chunks and num_chunks returned are
\* those of that retrieval
C27_RetrieveFormatGenerate ==
    rag.op = "rag_query" =>
        IF rag.retrieval.raised
        THEN /\ rag.call.outcome = "raised"
             /\ rag.call.steps = <<"retrieve">>
             /\ rag.call.sent = <<>>
        ELSE /\ rag.call.steps = <<"retrieve", "format", "generate">>
             /\ Len(rag.call.sent) = 1
             /\ rag.call.sent[1].user
                    = UserMessage(format_context(rag.retrieval.chunks), rag.user_query)
             /\ AttributedSources(rag.call.sent[1].user)
                    = [i \in 1..Len(rag.retrieval.chunks) |->
                          rag.retrieval.chunks[i].source_document]
             /\ rag.call.outcome = "returned" =>
                   /\ rag.call.result[1].context = format_context(rag.retrieval.chunks)
                   /\ rag.call.result[1].retrieved_chunks = rag.retrieval.chunks
                   /\ rag.call.result[1].num_chunks = Len(rag.retrieval.chunks)

\* rag_query returned on two matches from two documents
C27_Witness ==
    /\ rag.op = "rag_query" /\ ~rag.retrieval.raised
    /\ Len(rag.retrieval.chunks) = 2
    /\ rag.retrieval.chunks[1].source_document # rag.retrieval.chunks[2].source_document
    /\ rag.call.outcome = "returned"
    /\ rag.call.result[1].num_chunks = 2

(***************************************************************************)
(* build_knowledge_base, the handler of POST /api/knowledge-base/build.    *)
(* The upload directory is the list of what parse_multiple_files makes of  *)
(* its files: for each file whether it parsed, and the document it gives.  *)
(***************************************************************************)
Uploads ==
    {uploads \in UNION {[1..n -> [success : BOOLEAN, doc : Docs]] : n \in 0..MaxDocs} :
        \A i, j \in 1..Len(uploads) :
            i # j => uploads[i].doc.metadata.filename # uploads[j].doc.metadata.filename}

RECURSIVE SuccessfulDocs(_)
\* successful_docs = [doc for doc in parse_results['documents'] if doc['success']]
SuccessfulDocs(uploads) ==
    IF uploads = <<>> THEN <<>>
    ELSE (IF Head(uploads).success THEN <<Head(uploads).doc>> ELSE <<>>)
         \o SuccessfulDocs(Tail(uploads))

\* KnowledgeBaseStatus of backend.models
KnowledgeBaseStatus(success, message, total_documents, total_chunks, documents_processed) ==
    [success |-> success, message |-> message, total_documents |-> total_documents,
     total_chunks |-> total_chunks, documents_processed |-> documents_processed]

\* build_knowledge_base(clear_existing): clear if asked, list the uploads,
\* parse them, ingest the ones that parsed.  A failure of add_documents, raised
\* or returned, leaves as HTTP 500 ("raised")
build_knowledge_base(cl, clear_existing, uploads, fault) ==
    LET docs == SuccessfulDocs(uploads)
        cleared == IF clear_existing THEN clear_collection(cl) ELSE cl
        first == IF clear_existing THEN <<"clear">> ELSE <<>>
        r == add_documents_under(Collection(cleared).items, docs, AllChunks(docs), fault)
    IN IF uploads = <<>>
       THEN [outcome |-> "returned", client |-> cleared, steps |-> first \o <<"list">>,
             status |-> KnowledgeBaseStatus(FALSE, "No documents found in upload directory",
                                            0, 0, <<>>)]
       ELSE IF docs = <<>>
       THEN [outcome |-> "returned", client |-> cleared,
             steps |-> first \o <<"list", "parse">>,
             status |-> KnowledgeBaseStatus(FALSE, "Failed to parse any documents", 0, 0, <<>>)]
       ELSE [outcome |-> IF r.outcome = "returned" /\ r.result.success
                         THEN "returned" ELSE "raised",
             client |-> WithItems(cleared, r.items),
             steps |-> first \o <<"list", "parse", "ingest">>,
             status |-> KnowledgeBaseStatus(r.outcome = "returned" /\ r.result.success,
                                            "", r.result.total_documents,
                                            r.result.total_chunks,
                                            [i \in 1..Len(docs) |-> docs[i].metadata.filename])]

BuildInit ==
    /\ client \in AgentClients
    /\ last = NoCall
    /\ IdleAgent /\ IdleText
    /\ IdleParser /\ IdleRag /\ IdleScripts /\ IdleEmbedder /\ IdleGenerator

\* one build request per run
BuildKnowledgeBase ==
    /\ last = NoCall
    /\ \E clear_existing \in BOOLEAN, uploads \in Uploads, fault \in Faults :
          \E r \in {build_knowledge_base(client, clear_existing, uploads, fault)} :
             /\ client' = r.client
             /\ last' = [op |-> "build", clear_existing |-> clear_existing,
                         uploads |-> uploads, fault |-> fault, outcome |-> r.outcome,
                         steps |-> r.steps, status |-> r.status, before |-> Items]
    /\ UNCHANGED <<gen, text, out, pc, parsed, rag, scripts, embedder, generated>>

BuildNext == BuildKnowledgeBase

SpecBuild == BuildInit /\ [][BuildNext]_vars

\* the build reported failure: a response with success false, or HTTP 500
BuildFailed == last.outcome = "raised" \/ ~last.status.success

\* C30: build_knowledge_base clears the index only when clear_existing is
\* set, and then before it parses and ingests; a build that reports failure
\* leaves the index with the chunks it held before the request, whatever
\* clear_existing is
C30_FailedBuildKeepsIndex ==
    last.op = "build" =>
        /\ (\E i \in 1..Len(last.steps) : last.steps[i] = "clear") <=> last.clear_existing
        /\ last.clear_existing => last.steps[1] = "clear"
        /\ BuildFailed => Items = last.before

\* What holds: the index is cleared exactly when clear_existing is set, as
\* the first step; a failed build leaves the index as it was without
\* clear_existing, and empty with it.
FailedBuildKeepsOrEmptiesIndex ==
    last.op = "build" =>
        /\ (\E i \in 1..Len(last.steps) : last.steps[i] = "clear") <=> last.clear_existing
        /\ last.clear_existing => last.steps[1] = "clear"
        /\ BuildFailed => Items = IF last.clear_existing THEN {} ELSE last.before

====
